---- MODULE Spec2Model ----
(***************************************************************************)
(* Verification model of the eyeflow SVM edge node (eyeflow-svm-node):     *)
(* the cryptographic audit chain, the offline buffer, the link session of  *)
(* NodeClient, the register-machine executor Svm::execute, its resource    *)
(* arbiter and the secret cache; and of the microcontroller executor       *)
(* (eyeflow-svm-mcu) with its offline ring.                                *)
(***************************************************************************)
EXTENDS Integers, Sequences, FiniteSets, TLC

VARIABLES
    chain,          \* AuditChain.chain : VecDeque<AuditEvent>
    tampered,       \* TRUE once a stored event was modified from outside
    queue,          \* OfflineBuffer.queue : VecDeque<BufferedEvent>
    max_size,       \* OfflineBuffer.max_size
    is_online,      \* OfflineBuffer.is_online
    disk,           \* the NDJSON persistence file: NoFile or its lines
    enq,            \* envelopes enqueued so far, in enqueue order (history)
    drains,         \* number of AuditChain::drain calls so far (history)
    order,          \* Svm::execute: ir.instruction_order
    ip,             \* Svm::execute: the instruction pointer
    regs,           \* Svm::execute: the register file
    svm,            \* Svm::execute: "idle", "running", "done" or "failed"
    returned,       \* TRUE once the main loop dispatched a RETURN (history)
    ndisp,          \* instructions dispatched by the main loop (history)
    nextId,         \* audit events appended so far; numbers the event ids
    last,           \* locals of the last dispatch: attempts, waits, permit, iter
    pc,             \* NodeClient::run: where the session loop stands
    link,           \* the transport to the central: "up" or "down"
    sessions,       \* connection attempts so far
    msgs,           \* frames received from the central so far
    sent,           \* frames the central received in the current session
    cur,            \* the frame being handled, or handled last
    pending,        \* the slice result execute_ir returned, to be sent
    delivered,      \* ids of the audit events the central received
    ws_connected,   \* HealthState.ws_connected
    offline_depth,  \* HealthState.offline_depth
    alerts,         \* security-alert POSTs attempted so far
    arb,            \* Svm.resource_arbiter with the tasks that use it
    vault,          \* VaultClient with its clock, store and environment
    mcu             \* the microcontroller: Svm, OfflineRing and its link

coreVars == <<chain, tampered, queue, max_size, is_online, disk, enq, drains,
              order, ip, regs, svm, returned, ndisp, nextId, last,
              pc, link, sessions, msgs, sent, cur, pending, delivered,
              ws_connected, offline_depth, alerts>>

\* the state of the components that run beside the link session
extVars == <<arb, vault, mcu>>

vars == <<coreVars, extVars>>

auditVars == <<chain, tampered, drains>>
bufVars   == <<queue, max_size, is_online, disk, enq>>
svmVars   == <<order, ip, regs, svm, returned, ndisp, nextId, last>>

nodeVars  == <<pc, link, sessions, msgs, sent, cur, pending, delivered,
               ws_connected, offline_depth, alerts>>

\* what Svm::execute has no access to
outsideSvm == <<tampered, drains, bufVars, nodeVars>>

\* ---------------------------------------------------------------- bounds
MaxChain == 3
MaxK     == 3
MaxEnq   == 5

Min(a, b) == IF a < b THEN a ELSE b
Max(a, b) == IF a > b THEN a ELSE b

\* ------------------------------------------------------------ JSON values
\* serde_json::Value, as a tagged value: t is the JSON type, n the number,
\* the truth value (0/1) or the size of the string / array / object.
JNull    == [t |-> "null", n |-> 0]
JNum(k)  == [t |-> "num",  n |-> k]
JBool(b) == [t |-> "bool", n |-> IF b THEN 1 ELSE 0]
JStr(k)  == [t |-> "str",  n |-> k]
JObj(k)  == [t |-> "obj",  n |-> k]
JArr(k)  == [t |-> "arr",  n |-> k]

\* Option<T>
None    == [some |-> FALSE, v |-> JNull]
Some(x) == [some |-> TRUE,  v |-> x]
\* serde serialises None and Some(null) alike, as null
SerOpt(o) == IF o.some THEN o.v ELSE JNull

\* ------------------------------------------------------------ audit chain
\* SHA-256 is taken collision free: the digest stands for the hashed text.
sha256_str(data) == <<"sha256", data>>

\* "0".repeat(64)
ZeroHash == <<"0000000000000000000000000000000000000000000000000000000000000000">>

sha256_json(value) == sha256_str(SerOpt(value))

\* the json!({...}) body of append / verify: twelve keys, no selfHash,
\* signature or publicKeyHex
BodyJson(ev) ==
    <<ev.event_id, ev.timestamp, ev.node_id, ev.workflow_id,
      ev.workflow_version, ev.instruction_id, ev.event_type, ev.input_hash,
      ev.output_hash, ev.duration_ms, SerOpt(ev.details),
      ev.previous_event_hash>>

\* serde_json::to_string(event): all fifteen fields of the struct
EventJson(ev) ==
    <<ev.event_id, ev.timestamp, ev.node_id, ev.workflow_id,
      ev.workflow_version, ev.instruction_id, ev.event_type, ev.input_hash,
      ev.output_hash, ev.duration_ms, SerOpt(ev.details),
      ev.previous_event_hash, ev.self_hash, ev.signature, ev.public_key_hex>>

sha256_of(event) == sha256_str(EventJson(event))

NodeId          == "node-1"
VerifyingKeyHex == "pk-1"

sign(data) == <<"ed25519", VerifyingKeyHex, data>>

\* Option<String> / Option<u32>: serialised as they are (null or the value)
NoneStr    == [some |-> FALSE, v |-> ""]
SomeStr(s) == [some |-> TRUE,  v |-> s]
NoneInt    == [some |-> FALSE, v |-> 0]
SomeInt(k) == [some |-> TRUE,  v |-> k]

\* a plausible slip: linking to the hash of the predecessor's body only
previous_event_hash_body_only(ch) ==
    IF Len(ch) > 0 THEN sha256_str(BodyJson(ch[Len(ch)])) ELSE ZeroHash

\* append: self.chain.back().map(sha256_of).unwrap_or("0".repeat(64))
previous_event_hash_of(ch) ==
    IF Len(ch) > 0 THEN sha256_of(ch[Len(ch)]) ELSE ZeroHash

\* AuditChain::append: the event it builds from its arguments and the chain
NewEvent(ch, event_id, timestamp, workflow_id, workflow_version, instruction_id, event_type, input, output, duration_ms, details) ==
    LET previous_event_hash == previous_event_hash_of(ch)
        body == [event_id |-> event_id, timestamp |-> timestamp,
                 node_id |-> NodeId, workflow_id |-> workflow_id,
                 workflow_version |-> workflow_version,
                 instruction_id |-> instruction_id,
                 event_type |-> event_type,
                 input_hash |-> sha256_json(input),
                 output_hash |-> sha256_json(output),
                 duration_ms |-> duration_ms,
                 details |-> details,
                 previous_event_hash |-> previous_event_hash]
        self_hash == sha256_str(BodyJson(body))
    IN  [event_id |-> event_id, timestamp |-> timestamp, node_id |-> NodeId,
         workflow_id |-> workflow_id, workflow_version |-> workflow_version,
         instruction_id |-> instruction_id, event_type |-> event_type,
         input_hash |-> sha256_json(input),
         output_hash |-> sha256_json(output),
         duration_ms |-> duration_ms,
         details |-> Some(SerOpt(details)),
         previous_event_hash |-> previous_event_hash,
         self_hash |-> self_hash,
         signature |-> sign(self_hash),
         public_key_hex |-> VerifyingKeyHex]

\* AuditChain::verify, event i: "self" / "link" names the failing check
VerifyAt(ch, i) ==
    IF sha256_str(BodyJson(ch[i])) # ch[i].self_hash THEN "self"
    ELSE IF i > 1 /\ ch[i].previous_event_hash # sha256_of(ch[i - 1])
         THEN "link"
         ELSE "ok"

\* AuditChain::verify: Ok(len) or Err at the first failing position
\* (positions are counted from 0, as in the source)
verify(ch) ==
    LET bad == {i \in 1..Len(ch) : VerifyAt(ch, i) # "ok"}
    IN  IF bad = {}
        THEN [ok |-> TRUE, n |-> Len(ch)]
        ELSE [ok |-> FALSE,
              n |-> (CHOOSE i \in bad : \A j \in bad : i <= j) - 1]

\* the persistence file: absent, or its lines
NoFile == [exists |-> FALSE, lines |-> <<>>]

\* ------------------------------------------------------- offline buffer
\* BufferedEvent: kind is the enum variant, enqueued_at the time of the
\* enqueue (BufferedEvent::timestamp), counted in enqueues so far
Envelope(kind, payload, at) ==
    [kind |-> kind, payload |-> payload, enqueued_at |-> at]

Kinds == {"AuditEvent", "ExecutionResult", "TriggerFire"}

Timestamp == Len(enq)

\* a plausible slip: on overflow the new envelope is the one dropped
push_drop_newest(q, k, event) ==
    IF Len(q) >= k THEN q ELSE Append(q, event)

\* OfflineBuffer::push: pop_front when len >= max_size, then push_back
push(q, k, event) ==
    Append(IF Len(q) >= k /\ Len(q) > 0 THEN Tail(q) ELSE q, event)

\* serde: #[serde(tag = "kind", rename_all = "SCREAMING_SNAKE_CASE")]
WireKind(kind) ==
    CASE kind = "AuditEvent"      -> "AUDIT_EVENT"
      [] kind = "ExecutionResult" -> "EXECUTION_RESULT"
      [] kind = "TriggerFire"     -> "TRIGGER_FIRE"

WireKinds == {WireKind(k) : k \in Kinds}

\* serde_json::to_string(event): the JSON object of one envelope
ToJson(ev) ==
    [form |-> "json", kind |-> WireKind(ev.kind), payload |-> ev.payload,
     enqueued_at |-> ev.enqueued_at]

\* serde_json::from_str::<BufferedEvent>(line): Ok(event) or Err
FromJson(line) ==
    IF line.form = "json" /\ line.kind \in WireKinds
    THEN [ok |-> TRUE,
          ev |-> Envelope(CHOOSE k \in Kinds : WireKind(k) = line.kind,
                          line.payload, line.enqueued_at)]
    ELSE [ok |-> FALSE, ev |-> Envelope("AuditEvent", 0, 0)]

\* a line no envelope parses from, and an empty line
Garbage == [form |-> "garbage", kind |-> "", payload |-> 0, enqueued_at |-> 0]
Blank   == [form |-> "blank",   kind |-> "", payload |-> 0, enqueued_at |-> 0]

\* json!(events) / the lines written by persist
RECURSIVE ToJsonAll(_)
ToJsonAll(q) ==
    IF q = <<>> THEN <<>> ELSE <<ToJson(Head(q))>> \o ToJsonAll(Tail(q))

\* OfflineBuffer::persist: an empty queue truncates an existing file, a
\* non-empty queue replaces the file by one line per envelope
persist(q, file) ==
    IF q = <<>>
    THEN (IF file.exists THEN [exists |-> TRUE, lines |-> <<>>] ELSE file)
    ELSE [exists |-> TRUE, lines |-> ToJsonAll(q)]

\* OfflineBuffer::load, the loop over the lines from line i on
RECURSIVE LoadLines(_, _, _, _)
LoadLines(q, lines, i, k) ==
    IF i > Len(lines) THEN q
    ELSE IF lines[i].form = "blank" THEN LoadLines(q, lines, i + 1, k)
    ELSE LET r  == FromJson(lines[i])
             q2 == IF r.ok THEN Append(q, r.ev) ELSE q
         IN  IF Len(q2) >= k THEN q2 ELSE LoadLines(q2, lines, i + 1, k)

load(q, file, k) ==
    IF ~file.exists THEN q ELSE LoadLines(q, file.lines, 1, k)

\* OfflineBuffer::clear_disk
clear_disk(file) == NoFile

\* enqueue_audit_event / enqueue_execution_result / enqueue_trigger_fire
Enqueue(kind, payload) ==
    /\ queue' = push(queue, max_size, Envelope(kind, payload, Timestamp))
    /\ enq' = Append(enq, Envelope(kind, payload, Timestamp))

\* ------------------------------------------------------------ executor
MaxOrder    == 3      \* longest execution order explored
MaxDispatch == 5      \* main-loop dispatches counted, and audit events
                      \* in the chain up to which an execution is followed

RegIds    == 1..5
EmptyRegs == [r \in RegIds |-> None]

\* bodies an external endpoint may answer with
Responses == {JNum(7), JNull}

Ok(v)  == [ok |-> TRUE,  v |-> v]
Err    == [ok |-> FALSE, v |-> JNull]

\* locals of a dispatch that left nothing to record: calls is the number of
\* invocations of the wrapped operation and errs how many of them returned
\* an error, waits the wait_ms slept before the retries, permit the outcome
\* of acquire_resource_permit, iter and steps the full iterations and the
\* body steps of the inline LOOP, results what the futures of a
\* PARALLEL_SPAWN returned, in the order of the futures
NoLast == [calls |-> 0, errs |-> 0, waits |-> <<>>, permit |-> "none",
           iter |-> 0, steps |-> 0, results |-> <<>>]

NoLoop == [present |-> FALSE, max_iterations |-> 0, body_start_index |-> 0,
           exit_index |-> 0, pred |-> FALSE, register_index |-> 1,
           operator |-> "==", value |-> JNull]

\* a u64 kept as m * 2^e (m < 2^15), so that 64-bit wrap-around is computed
\* without leaving the integers of the model
U64(m, e) == IF m = 0 THEN [m |-> 0, e |-> 0] ELSE [m |-> m, e |-> e]

\* base_ms * 2^shift as a mathematical integer
ShlExact(x, shift) == U64(x.m, x.e + shift)

\* base_ms * (1u64 << shift) as a release build computes it: modulo 2^64
wrapping_mul_pow2(x, shift) ==
    LET e == x.e + shift
    IN  IF e >= 64 THEN U64(0, 0)
        ELSE IF 64 - e >= 15 THEN U64(x.m, e)
        ELSE U64(x.m % (2 ^ (64 - e)), e)

Overflows(x, shift) == wrapping_mul_pow2(x, shift) # ShlExact(x, shift)

\* a debug build panics on the overflow, a release build wraps
Builds == {"debug", "release"}

\* IrInstruction.  operands_json is kept by its keys: strategy ("" when the
\* key is absent), safeDefault, maxAttempts and backoffBaseMs (the keys
\* InstructionFallbackConfig decodes), safe_default (a key it does not
\* know), value (the document itself) and operands_ok (it parses as an
\* InstructionFallbackConfig).
\* endpoint: "url" (dispatch_metadata with an endpoint), "empty"
\* (dispatch_metadata without endpoint) or "none" (no dispatch_metadata).
Instr0 ==
    [opcode |-> "RETURN", dest |-> 1, src |-> <<>>, target_instruction |-> 0,
     strategy |-> "", safeDefault |-> None, safe_default |-> None,
     maxAttempts |-> NoneInt, backoffBaseMs |-> None, operands_ok |-> TRUE,
     value |-> JObj(1), endpoint |-> "none", loop_operands |-> NoLoop,
     priority_policy |-> FALSE]

\* register values of every JSON type, empty and not
Values ==
    <<JNull, JBool(FALSE), JBool(TRUE), JNum(0), JNum(3), JStr(0), JStr(2),
      JArr(0), JArr(1), JObj(0), JObj(1)>>

\* a LOOP over the body [STORE_MEMORY #2, RETURN #3) with max_iterations m
\* and, when pred, the convergence predicate `R5 operator value`
LoopInstr(m, pred, operator, value) ==
    [Instr0 EXCEPT !.opcode = "LOOP",
                   !.loop_operands =
                       [NoLoop EXCEPT !.present = TRUE, !.max_iterations = m,
                                      !.body_start_index = 2,
                                      !.exit_index = 3, !.pred = pred,
                                      !.register_index = 5,
                                      !.operator = operator,
                                      !.value = value]]

\* ir.instructions : index -> instruction.  Index 0 is in no IR's map.
Instructions ==
    [i \in 1..44 |->
       CASE i = 1  -> [Instr0 EXCEPT !.opcode = "LOAD_RESOURCE", !.dest = 1]
         [] i = 2  -> [Instr0 EXCEPT !.opcode = "STORE_MEMORY", !.dest = 2,
                                     !.src = <<1>>]
         [] i = 3  -> Instr0
         [] i = 4  -> [Instr0 EXCEPT !.opcode = "BRANCH", !.src = <<1>>,
                                     !.target_instruction = 6]
         [] i = 5  -> [Instr0 EXCEPT !.opcode = "JUMP",
                                     !.target_instruction = 1]
         [] i = 6  -> [Instr0 EXCEPT !.opcode = "CALL_SERVICE", !.dest = 3,
                                     !.src = <<1>>, !.endpoint = "url",
                                     !.strategy = "RETRY_WITH_BACKOFF",
                                     !.maxAttempts = SomeInt(2)]
         [] i = 7  -> [Instr0 EXCEPT !.opcode = "LOOP",
                          !.loop_operands =
                              [NoLoop EXCEPT !.present = TRUE,
                                             !.max_iterations = 2,
                                             !.body_start_index = 2,
                                             !.exit_index = 3]]
         [] i = 8  -> [Instr0 EXCEPT !.opcode = "PARALLEL_SPAWN"]
         [] i = 9  -> [Instr0 EXCEPT !.opcode = "LLM_CALL", !.dest = 2,
                                     !.endpoint = "url",
                                     !.safeDefault = Some(JNum(42))]
         [] i = 10 -> [Instr0 EXCEPT !.opcode = "PARALLEL_MERGE"]
         [] i = 11 -> [Instr0 EXCEPT !.opcode = "TRANSFORM", !.dest = 1,
                                     !.src = <<2>>]
         [] i = 12 -> [Instr0 EXCEPT !.opcode = "OPCODE_99", !.dest = 3]
         [] i = 13 -> [Instr0 EXCEPT !.opcode = "BRANCH", !.src = <<1>>,
                                     !.target_instruction = 3]
         [] i = 14 -> [Instr0 EXCEPT !.opcode = "BRANCH",
                                     !.target_instruction = 3]
         [] i = 15 -> [Instr0 EXCEPT !.opcode = "BRANCH", !.src = <<1>>,
                                     !.target_instruction = 2]
         [] i = 16 -> [Instr0 EXCEPT !.opcode = "LOAD_RESOURCE", !.dest = 5,
                                     !.value = JNum(3)]
         [] i = 17 -> LoopInstr(0, FALSE, "==", JNull)
         [] i = 18 -> LoopInstr(3, TRUE, "==", JNum(3))
         [] i = 19 -> LoopInstr(2, TRUE, "truthy", JNull)
         [] i = 20 -> LoopInstr(10, TRUE, "==", JNum(3))
         [] i \in 21..31 ->
               [Instr0 EXCEPT !.opcode = "LOAD_RESOURCE", !.dest = 1,
                              !.value = Values[i - 20],
                              !.operands_ok = (Values[i - 20].t = "obj")]
         [] i = 32 -> [Instr0 EXCEPT !.opcode = "LLM_CALL", !.dest = 1,
                                     !.endpoint = "url",
                                     !.strategy = "RETRY_WITH_BACKOFF",
                                     !.maxAttempts = SomeInt(1)]
         [] i = 33 -> [Instr0 EXCEPT !.opcode = "LLM_CALL", !.dest = 3,
                                     !.endpoint = "url"]
         [] i = 34 -> [Instr0 EXCEPT !.opcode = "CALL_SERVICE", !.dest = 3,
                                     !.endpoint = "url",
                                     !.strategy = "FAIL_SAFE",
                                     !.safe_default = Some(JNum(42))]
         [] i = 35 -> [Instr0 EXCEPT !.opcode = "CALL_SERVICE", !.dest = 3,
                                     !.endpoint = "url",
                                     !.strategy = "unknown",
                                     !.safeDefault = Some(JNum(42))]
         [] i = 36 -> [Instr0 EXCEPT !.opcode = "CALL_SERVICE", !.dest = 3,
                                     !.strategy = "retry-with-backoff",
                                     !.maxAttempts = SomeInt(9),
                                     !.backoffBaseMs = Some(U64(1, 0))]
         [] i = 37 -> [Instr0 EXCEPT !.opcode = "CALL_ACTION", !.dest = 3,
                                     !.endpoint = "url",
                                     !.strategy = "RETRY_WITH_BACKOFF",
                                     !.maxAttempts = SomeInt(0)]
         [] i = 38 -> [Instr0 EXCEPT !.opcode = "CALL_SERVICE", !.dest = 3,
                                     !.strategy = "RETRY_WITH_BACKOFF",
                                     !.maxAttempts = SomeInt(3),
                                     !.backoffBaseMs = Some(U64(1, 63))]
         [] i = 39 -> [Instr0 EXCEPT !.opcode = "CALL_SERVICE", !.dest = 3,
                                     !.endpoint = "url",
                                     !.strategy = "FAIL_SAFE",
                                     !.safeDefault = Some(JNum(42)),
                                     !.priority_policy = TRUE]
         [] i = 40 -> [Instr0 EXCEPT !.opcode = "CALL_ACTION", !.dest = 3,
                                     !.endpoint = "url",
                                     !.strategy = "DEGRADED_MODE",
                                     !.priority_policy = TRUE]
         [] i = 41 -> [Instr0 EXCEPT !.opcode = "JUMP",
                                     !.target_instruction = 11]
         [] i = 42 -> [Instr0 EXCEPT !.opcode = "LOOP",
                          !.loop_operands =
                              [NoLoop EXCEPT !.present = TRUE,
                                             !.max_iterations = 2,
                                             !.body_start_index = 11,
                                             !.exit_index = 11]]
         [] i = 43 -> [Instr0 EXCEPT !.opcode = "CALL_SERVICE", !.dest = 3,
                                     !.endpoint = "url",
                                     !.strategy = "LLM_REASONING",
                                     !.safeDefault = Some(JNum(42))]
         [] OTHER  -> [Instr0 EXCEPT !.opcode = "LOAD_RESOURCE", !.dest = 3,
                                     !.endpoint = "url",
                                     !.strategy = "SUPERVISED_RECOMPILE",
                                     !.safeDefault = Some(JNum(42))]]

InstrIndexes == 0..12

KnownOpcodes ==
    {"LOAD_RESOURCE", "STORE_MEMORY", "CALL_SERVICE", "CALL_ACTION",
     "CALL_MCP", "LLM_CALL", "TRANSFORM", "VALIDATE", "BRANCH", "LOOP",
     "JUMP", "RETURN", "PARALLEL_SPAWN", "PARALLEL_MERGE", "AGGREGATE",
     "FILTER"}

\* IrOpcode::try_from(instr.opcode).unwrap_or(IrOpcode::Return)
OpcodeOf(instr) ==
    IF instr.opcode \in KnownOpcodes THEN instr.opcode ELSE "RETURN"

\* a plausible slip: a missing source reads as null
read_src_or_null(instr, rg, n) ==
    IF n + 1 <= Len(instr.src) /\ instr.src[n + 1] \in DOMAIN rg
       /\ rg[instr.src[n + 1]].some
    THEN Ok(rg[instr.src[n + 1]].v) ELSE Ok(JNull)

\* Svm::read_src
read_src(instr, rg, n) ==
    IF n + 1 > Len(instr.src) THEN Err
    ELSE LET idx == instr.src[n + 1]
         IN  IF idx \in DOMAIN rg /\ rg[idx].some THEN Ok(rg[idx].v) ELSE Err

\* Svm::resolve_ip: 0-based position of the index in the order, or its length
resolve_ip(ord, target_instr_idx) ==
    LET hits == {k \in 1..Len(ord) : ord[k] = target_instr_idx}
    IN  IF hits = {} THEN Len(ord)
        ELSE (CHOOSE k \in hits : \A j \in hits : k <= j) - 1

\* a plausible slip: everything but null counts as true
is_truthy_unless_null(val) == val.some /\ val.v.t # "null"

\* Svm::is_truthy, on Option<&Value>
is_truthy(val) ==
    /\ val.some
    /\ val.v.t # "null"
    /\ val.v.n # 0

\* Svm::cmp_f64 applies only to two numbers
BothNum(a, b) == a.t = "num" /\ b.t = "num"

\* Svm::eval_predicate
eval_predicate(val, operator, expected) ==
    CASE operator \in {"==", "eq"} -> val = expected
      [] operator \in {"!=", "ne"} -> val # expected
      [] operator = "truthy"       -> is_truthy(Some(val))
      [] operator = "exists"       -> val.t # "null"
      [] operator = "<"            -> BothNum(val, expected) /\ val.n < expected.n
      [] operator = "<="           -> BothNum(val, expected) /\ val.n <= expected.n
      [] operator = ">"            -> BothNum(val, expected) /\ val.n > expected.n
      [] operator = ">="           -> BothNum(val, expected) /\ val.n >= expected.n
      [] OTHER                     -> FALSE

\* Svm::apply_transform; the operands of this model carry neither "path"
\* nor "template", so the source value is passed through
apply_transform(src, operands) == src

\* what exec_load_resource / exec_call_service / exec_call_action /
\* exec_call_mcp / exec_llm_call can return for the instruction
ExecResults(instr) ==
    LET op == OpcodeOf(instr)
        http == {Ok(b) : b \in Responses} \cup {Err}
    IN  CASE op = "LOAD_RESOURCE" ->
               IF instr.endpoint = "url" THEN http ELSE {Ok(instr.value)}
          [] op = "CALL_ACTION" ->
               IF instr.endpoint = "url" THEN http ELSE {Ok(JNull)}
          [] OTHER ->
               IF instr.endpoint = "none" THEN {Err} ELSE http

Strategies ==
    {"FAIL_SAFE", "DEGRADED_MODE", "RETRY_WITH_BACKOFF", "LLM_REASONING",
     "SUPERVISED_RECOMPILE"}

\* s.to_uppercase().replace('-', "_"), on the spellings of this model
UpperSnake(s) ==
    CASE s = "fail_safe"          -> "FAIL_SAFE"
      [] s = "degraded-mode"      -> "DEGRADED_MODE"
      [] s = "retry-with-backoff" -> "RETRY_WITH_BACKOFF"
      [] OTHER                    -> s

\* FallbackStrategy::from_str
from_str(s) == IF UpperSnake(s) \in Strategies THEN UpperSnake(s) ELSE "FAIL_SAFE"

\* serde defaults of InstructionFallbackConfig
default_max_attempts    == 3
default_backoff_base_ms == U64(125, 4)

\* FallbackEngine::strategy_for: the decoded InstructionFallbackConfig with
\* its strategy.  A document that does not decode gives Default::default()
\* (no strategy, no safe_default, max_attempts 0, backoff_base_ms 0).
strategy_for(instr) ==
    IF instr.operands_ok
    THEN [strategy |-> IF instr.strategy = "" THEN "FAIL_SAFE"
                       ELSE from_str(instr.strategy),
          safe_default |-> instr.safeDefault,
          max_attempts |-> IF instr.maxAttempts.some THEN instr.maxAttempts.v
                           ELSE default_max_attempts,
          backoff_base_ms |-> IF instr.backoffBaseMs.some
                              THEN instr.backoffBaseMs.v
                              ELSE default_backoff_base_ms]
    ELSE [strategy |-> "FAIL_SAFE", safe_default |-> None,
          max_attempts |-> 0, backoff_base_ms |-> U64(0, 0)]

\* a plausible slip: SUPERVISED_RECOMPILE gives up when its notification
\* was not delivered
apply_simple_notified(cfg) ==
    LET default_val == SerOpt(cfg.safe_default)
    IN  CASE cfg.strategy = "DEGRADED_MODE" -> {Ok(JNull)}
          [] cfg.strategy = "LLM_REASONING" ->
               {Ok(b) : b \in Responses} \cup {Ok(default_val)}
          [] cfg.strategy = "SUPERVISED_RECOMPILE" -> {Ok(default_val), Err}
          [] OTHER -> {Ok(default_val)}

\* FallbackEngine::apply_simple: the value a failed call is recovered with
apply_simple(cfg) ==
    LET default_val == SerOpt(cfg.safe_default)
    IN  CASE cfg.strategy = "DEGRADED_MODE" -> {Ok(JNull)}
          [] cfg.strategy = "LLM_REASONING" ->
               {Ok(b) : b \in Responses} \cup {Ok(default_val)}
          [] OTHER -> {Ok(default_val)}

\* what a wrapped call ends with: its result, whether it panicked, the
\* number of invocations of the operation and the waits slept
Outcome(result, panic, calls, errs, waits) ==
    [result |-> result, panic |-> panic, calls |-> calls, errs |-> errs,
     waits |-> waits]

\* Svm::retry_backoff from `attempt` on; outs[k] is what the k-th invocation
\* of the operation returns
RECURSIVE retry_backoff(_, _, _, _, _, _)
retry_backoff(cfg, outs, build, attempt, calls, waits) ==
    LET max   == Max(cfg.max_attempts, 1)
        shift == Min(attempt - 2, 6)
    IN  IF attempt > max THEN Outcome(Err, FALSE, calls, calls, waits)
        ELSE IF attempt > 1 /\ Overflows(cfg.backoff_base_ms, shift)
                /\ build = "debug"
        THEN Outcome(Err, TRUE, calls, calls, waits)
        ELSE LET slept == IF attempt > 1
                          THEN Append(waits,
                                 wrapping_mul_pow2(cfg.backoff_base_ms, shift))
                          ELSE waits
             IN  IF outs[attempt].ok
                 THEN Outcome(outs[attempt], FALSE, calls + 1, calls, slept)
                 ELSE retry_backoff(cfg, outs, build, attempt + 1, calls + 1,
                                    slept)

\* load_resource_with_fallback, call_service_with_fallback, ...: what the
\* wrapped call can end with.  RETRY_WITH_BACKOFF retries in place; every
\* other strategy invokes the operation once and hands an error to
\* apply_simple.
WithFallback(instr) ==
    LET rs  == ExecResults(instr)
        cfg == strategy_for(instr)
    IN  IF cfg.strategy = "RETRY_WITH_BACKOFF"
        THEN {retry_backoff(cfg, outs, b, 1, 0, <<>>) :
                 outs \in [1..Max(cfg.max_attempts, 1) -> rs], b \in Builds}
        ELSE {Outcome(r, FALSE, 1, 0, <<>>) : r \in {x \in rs : x.ok}} \cup
             (IF Err \in rs
              THEN {Outcome(r, FALSE, 1, 1, <<>>) : r \in apply_simple(cfg)}
              ELSE {})

\* the parts of the state a specification does not use, at rest
InitArbIdle == arb = <<>>

InitVaultIdle == vault = <<>>

InitMcuIdle == mcu = <<>>

InitExtIdle == InitArbIdle /\ InitVaultIdle /\ InitMcuIdle

InitSvmIdle ==
    /\ order = <<>> /\ ip = 0 /\ regs = EmptyRegs
    /\ svm = "idle" /\ returned = FALSE /\ ndisp = 0 /\ nextId = 0
    /\ last = NoLast

InitBufIdle ==
    /\ queue = <<>> /\ max_size = 0 /\ is_online = FALSE
    /\ disk = NoFile /\ enq = <<>>

NoMsg ==
    [type |-> "NONE", version |-> 0, checksum |-> "empty", order |-> <<>>,
     version_checked |-> FALSE, digest_equal |-> FALSE, runs |-> 0,
     alerts |-> 0, status |-> "none", reply |-> "none",
     reply_ok |-> FALSE, link_at_result |-> "up", events_before |-> 0]

NoResult == [status |-> "none", error |-> FALSE, audit_events |-> <<>>,
             drained |-> <<>>, output_registers |-> <<>>]

InitNodeIdle ==
    /\ pc = "idle" /\ link = "down" /\ sessions = 0 /\ msgs = 0
    /\ sent = <<>> /\ cur = NoMsg /\ pending = NoResult
    /\ delivered = {} /\ ws_connected = FALSE /\ offline_depth = 0
    /\ alerts = 0

\* the instruction the main loop is about to dispatch
Running  == svm = "running" /\ ip < Len(order) /\ Len(chain) < MaxDispatch
CurIdx   == order[ip + 1]
HasInstr == CurIdx \in DOMAIN Instructions
CurInstr == Instructions[CurIdx]
CurOp    == OpcodeOf(CurInstr)

Dispatching(ops) == Running /\ HasInstr /\ CurOp \in ops

\* the dispatches of the main loop so far, counted up to MaxDispatch
Dispatched(n) == IF n < MaxDispatch THEN n + 1 ELSE n

\* audit.append(&workflow_id, workflow_version, Some(&instr.service_id),
\*              event_type, input, Some(&result), elapsed, None)
AppendAudit(event_type, input, result) ==
    /\ chain' = Append(chain,
                  NewEvent(chain, nextId + 1, "t0", "wf", SomeInt(1),
                           SomeStr("svc"), event_type, input, Some(result),
                           0, None))
    /\ nextId' = nextId + 1

\* a plausible slip: the failed instruction leaves null in its dest
AbortWritingNull ==
    /\ svm' = "failed"
    /\ regs' = [regs EXCEPT ![CurInstr.dest] = Some(JNull)]
    /\ UNCHANGED <<ip, chain, nextId>>

\* the `?` of the main loop: execute returns the error
Abort ==
    /\ svm' = "failed"
    /\ UNCHANGED <<ip, regs, chain, nextId>>

\* an arithmetic overflow panic of a debug build unwinds out of execute
Panic ==
    /\ svm' = "panicked"
    /\ UNCHANGED <<ip, regs, chain, nextId>>

\* ip = next_ip, with the register file after the opcode
Advance(next_ip, rg) ==
    /\ ip' = next_ip
    /\ regs' = rg
    /\ svm' = "running"

\* ir.instructions.get(&idx).ok_or_else(|| anyhow!("missing instruction"))?
SvmMissing ==
    /\ Running /\ ~HasInstr
    /\ Abort
    /\ ndisp' = Dispatched(ndisp) /\ last' = NoLast
    /\ UNCHANGED <<order, returned, outsideSvm>>
    /\ UNCHANGED extVars

\* while ip < order.len() is false: Ok((regs, elapsed))
SvmExhausted ==
    /\ svm = "running" /\ ip >= Len(order)
    /\ svm' = "done"
    /\ UNCHANGED <<order, ip, regs, returned, ndisp, nextId, last, chain,
                   outsideSvm>>
    /\ UNCHANGED extVars

SvmLoadResource ==
    /\ Dispatching({"LOAD_RESOURCE"})
    /\ \E o \in WithFallback(CurInstr) :
         /\ last' = [NoLast EXCEPT !.calls = o.calls, !.errs = o.errs,
                                   !.waits = o.waits]
         /\ IF o.panic THEN Panic
            ELSE IF o.result.ok
            THEN /\ Advance(ip + 1,
                            [regs EXCEPT ![CurInstr.dest] = Some(o.result.v)])
                 /\ AppendAudit("LOAD_RESOURCE", None, o.result.v)
            ELSE Abort
    /\ ndisp' = Dispatched(ndisp)
    /\ UNCHANGED <<order, returned, outsideSvm>>
    /\ UNCHANGED extVars

SvmStoreMemory ==
    /\ Dispatching({"STORE_MEMORY"})
    /\ LET src == read_src(CurInstr, regs, 0)
       IN  IF src.ok
           THEN /\ Advance(ip + 1,
                           [regs EXCEPT ![CurInstr.dest] = Some(src.v)])
                /\ UNCHANGED <<chain, nextId>>
           ELSE Abort
    /\ ndisp' = Dispatched(ndisp) /\ last' = NoLast
    /\ UNCHANGED <<order, returned, outsideSvm>>
    /\ UNCHANGED extVars

\* CALL_SERVICE, CALL_ACTION, CALL_MCP, LLM_CALL.  With a priority_policy
\* the first two acquire the permit of their resource, which times out
\* when another execute on the same Svm keeps it beyond max_wait_ms
\* (got = FALSE).  The node runs one execute at a time, so the orders of
\* the node carry no priority_policy.
SvmCall ==
    /\ Dispatching({"CALL_SERVICE", "CALL_ACTION", "CALL_MCP", "LLM_CALL"})
    /\ \E got \in BOOLEAN, o \in WithFallback(CurInstr) :
         LET permit == CurInstr.priority_policy
                       /\ CurOp \in {"CALL_SERVICE", "CALL_ACTION"}
             src    == read_src(CurInstr, regs, 0)
             input  == IF src.ok THEN Some(src.v) ELSE None
         IN  /\ (~permit => got)
             /\ IF ~got
                THEN /\ last' = [NoLast EXCEPT !.permit = "timeout"]
                     /\ Abort
                ELSE /\ last' = [NoLast EXCEPT
                                   !.permit = IF permit THEN "held" ELSE "none",
                                   !.calls = o.calls, !.errs = o.errs,
                                   !.waits = o.waits]
                     /\ IF o.panic THEN Panic
                        ELSE IF o.result.ok
                        THEN /\ Advance(ip + 1,
                                        [regs EXCEPT ![CurInstr.dest] =
                                                         Some(o.result.v)])
                             /\ IF CurOp = "CALL_MCP"
                                THEN UNCHANGED <<chain, nextId>>
                                ELSE AppendAudit(CurOp, input, o.result.v)
                        ELSE Abort
    /\ ndisp' = Dispatched(ndisp)
    /\ UNCHANGED <<order, returned, outsideSvm>>
    /\ UNCHANGED extVars

SvmBranch ==
    /\ Dispatching({"BRANCH"})
    /\ LET src  == read_src(CurInstr, regs, 0)
           cond == IF src.ok THEN Some(src.v) ELSE None
       IN  Advance(IF is_truthy(cond)
                   THEN resolve_ip(order, CurInstr.target_instruction)
                   ELSE ip + 1, regs)
    /\ ndisp' = Dispatched(ndisp) /\ last' = NoLast
    /\ UNCHANGED <<order, returned, chain, nextId, outsideSvm>>
    /\ UNCHANGED extVars

SvmJump ==
    /\ Dispatching({"JUMP"})
    /\ Advance(resolve_ip(order, CurInstr.target_instruction), regs)
    /\ ndisp' = Dispatched(ndisp) /\ last' = NoLast
    /\ UNCHANGED <<order, returned, chain, nextId, outsideSvm>>
    /\ UNCHANGED extVars

\* a plausible slip: RETURN handled like a no-op that advances
AfterReturnAdvances(cur_ip) == [status |-> "running", next_ip |-> cur_ip + 1]

\* IrOpcode::Return => break: the loop is left, ip stays where it is
AfterReturn(cur_ip) == [status |-> "done", next_ip |-> cur_ip]

\* RETURN (also every opcode number the node does not know): execute
\* returns Ok((regs, elapsed))
SvmReturn ==
    /\ Dispatching({"RETURN"})
    /\ svm' = AfterReturn(ip).status
    /\ ip' = AfterReturn(ip).next_ip
    /\ returned' = TRUE
    /\ ndisp' = Dispatched(ndisp) /\ last' = NoLast
    /\ UNCHANGED <<order, regs, chain, nextId, outsideSvm>>
    /\ UNCHANGED extVars

\* TRANSFORM, VALIDATE, AGGREGATE, FILTER: read_src(..).unwrap_or(Null)
SvmTransform ==
    /\ Dispatching({"TRANSFORM", "VALIDATE", "AGGREGATE", "FILTER"})
    /\ LET r   == read_src(CurInstr, regs, 0)
           src == IF r.ok THEN r.v ELSE JNull
           out == IF CurOp = "TRANSFORM"
                  THEN apply_transform(src, CurInstr.value) ELSE src
       IN  Advance(ip + 1, [regs EXCEPT ![CurInstr.dest] = Some(out)])
    /\ ndisp' = Dispatched(ndisp) /\ last' = NoLast
    /\ UNCHANGED <<order, returned, chain, nextId, outsideSvm>>
    /\ UNCHANGED extVars

SvmParallelMerge ==
    /\ Dispatching({"PARALLEL_MERGE"})
    /\ Advance(ip + 1, regs)
    /\ ndisp' = Dispatched(ndisp) /\ last' = NoLast
    /\ UNCHANGED <<order, returned, chain, nextId, outsideSvm>>
    /\ UNCHANGED extVars

\* how the inline loop ended, with its counters
LoopEnd(end, iter, steps) == [end |-> end, iter |-> iter, steps |-> steps]

\* the inline loop of IrOpcode::Loop, from (iter, body_ip): it ends with
\* "break" or "err" after `iter` full iterations and `steps` body steps.
\* A body step looks the body instruction up and steps over it.
RECURSIVE LoopRun(_, _, _, _, _, _)
LoopRun(ord, rg, lo, iter, body_ip, steps) ==
    LET max_iter   == Max(lo.max_iterations, 1)
        body_start == resolve_ip(ord, lo.body_start_index)
        exit_ip    == resolve_ip(ord, lo.exit_index)
        reg_val    == IF lo.register_index \in DOMAIN rg
                      THEN SerOpt(rg[lo.register_index]) ELSE JNull
    IN  IF iter >= max_iter THEN LoopEnd("break", iter, steps)
        ELSE IF lo.pred /\ eval_predicate(reg_val, lo.operator, lo.value)
        THEN LoopEnd("break", iter, steps)
        ELSE IF body_ip >= Len(ord) THEN LoopEnd("err", iter, steps)
        ELSE IF ord[body_ip + 1] \notin DOMAIN Instructions
        THEN LoopEnd("err", iter, steps)
        ELSE IF OpcodeOf(Instructions[ord[body_ip + 1]]) = "RETURN"
        THEN LoopEnd("break", iter, steps)
        ELSE IF body_ip + 1 >= exit_ip
        THEN LoopRun(ord, rg, lo, iter + 1, body_start, steps + 1)
        ELSE LoopRun(ord, rg, lo, iter, body_ip + 1, steps + 1)

SvmLoop ==
    /\ Dispatching({"LOOP"})
    /\ LET lo  == CurInstr.loop_operands
           run == LoopRun(order, regs, lo, 0,
                          resolve_ip(order, lo.body_start_index), 0)
       IN  IF ~lo.present THEN Abort /\ last' = NoLast
           ELSE /\ last' = [NoLast EXCEPT !.iter = run.iter,
                                          !.steps = run.steps]
                /\ IF run.end = "break"
                   THEN /\ Advance(resolve_ip(order, lo.exit_index), regs)
                        /\ UNCHANGED <<chain, nextId>>
                   ELSE Abort
    /\ ndisp' = Dispatched(ndisp)
    /\ UNCHANGED <<order, returned, outsideSvm>>
    /\ UNCHANGED extVars

\* the forward scan of IrOpcode::ParallelSpawn from scan_ip: the ip of the
\* matching PARALLEL_MERGE (merge_ip when there is none) and the indexes of
\* the LLM_CALLs collected on the way
RECURSIVE SpawnScan(_, _, _, _, _)
SpawnScan(ord, scan_ip, nesting, merge_ip, calls) ==
    IF scan_ip >= Len(ord) THEN [merge_ip |-> merge_ip, calls |-> calls]
    ELSE LET scan_idx == ord[scan_ip + 1]
             scan_op  == IF scan_idx \in DOMAIN Instructions
                         THEN OpcodeOf(Instructions[scan_idx]) ELSE "absent"
         IN  CASE scan_op = "PARALLEL_SPAWN" ->
                    SpawnScan(ord, scan_ip + 1, nesting + 1, merge_ip, calls)
               [] scan_op = "PARALLEL_MERGE" ->
                    IF nesting - 1 = 0
                    THEN [merge_ip |-> scan_ip, calls |-> calls]
                    ELSE SpawnScan(ord, scan_ip + 1, nesting - 1, merge_ip,
                                   calls)
               [] scan_op = "LLM_CALL" ->
                    SpawnScan(ord, scan_ip + 1, nesting, merge_ip,
                              Append(calls, scan_idx))
               [] OTHER ->
                    SpawnScan(ord, scan_ip + 1, nesting, merge_ip, calls)

\* for (dest, result) in parallel_dests.zip(results): Ok(v) is written to
\* dest, a failed call writes null
RECURSIVE WriteResults(_, _, _, _)
WriteResults(rg, calls, results, k) ==
    IF k > Len(calls) THEN rg
    ELSE WriteResults(
           [rg EXCEPT ![Instructions[calls[k]].dest] =
                Some(IF results[k].result.ok THEN results[k].result.v
                     ELSE JNull)],
           calls, results, k + 1)

\* what the futures of the collected calls can end with, one per call
RECURSIVE ParallelOutcomes(_)
ParallelOutcomes(calls) ==
    IF calls = <<>> THEN {<<>>}
    ELSE {<<o>> \o rest : o \in WithFallback(Instructions[Head(calls)]),
                          rest \in ParallelOutcomes(Tail(calls))}

\* the futures complete in the order `done`: the j-th completion is the
\* future in slot done[j]
Arrivals(outs, done) ==
    [j \in 1..Len(outs) |-> [slot |-> done[j], out |-> outs[done[j]]]]

\* a plausible slip: the outputs in the order the futures completed
join_as_completed(arrivals) ==
    [k \in 1..Len(arrivals) |-> arrivals[k].out]

\* futures_util::future::join_all: the outputs in the order of the futures
join_all(arrivals) ==
    [k \in 1..Len(arrivals) |->
        arrivals[CHOOSE j \in 1..Len(arrivals) : arrivals[j].slot = k].out]

SvmParallelSpawn ==
    /\ Dispatching({"PARALLEL_SPAWN"})
    /\ LET sc == SpawnScan(order, ip + 1, 1, ip + 1, <<>>)
       IN  \E outs \in ParallelOutcomes(sc.calls),
              done \in Permutations(1..Len(sc.calls)) :
             LET results == join_all(Arrivals(outs, done))
             IN  /\ last' = [NoLast EXCEPT !.results =
                                 [k \in 1..Len(outs) |-> outs[k].result]]
                 /\ IF \E k \in 1..Len(results) : results[k].panic
                    THEN Panic
                    ELSE Advance(sc.merge_ip + 1,
                                 WriteResults(regs, sc.calls, results, 1))
    /\ ndisp' = Dispatched(ndisp)
    /\ UNCHANGED <<order, returned, chain, nextId, outsideSvm>>
    /\ UNCHANGED extVars

SvmStep ==
    \/ SvmMissing
    \/ SvmExhausted
    \/ SvmLoadResource
    \/ SvmStoreMemory
    \/ SvmCall
    \/ SvmBranch
    \/ SvmJump
    \/ SvmLoop
    \/ SvmReturn
    \/ SvmTransform
    \/ SvmParallelSpawn
    \/ SvmParallelMerge

\* every execution order of at most MaxOrder instruction indexes
RECURSIVE OrdersOfLen(_)
OrdersOfLen(n) ==
    IF n = 0 THEN {<<>>}
    ELSE {Append(o, i) : o \in OrdersOfLen(n - 1), i \in InstrIndexes}

AllOrders == UNION {OrdersOfLen(n) : n \in 0..MaxOrder}

\* orders of the IRs that exercise one opcode each
BranchOrders ==
    {<<l, b, 2, 3>> : l \in 21..31, b \in {4, 13}} \cup
    {<<l, 13, 3, 2, 3>> : l \in {23, 24}} \cup
    {<<l, 2, 15, 3>> : l \in {22, 27}} \cup
    {<<14, 2, 3>>}

LoopOrders ==
    {<<lp, 2, 3>> : lp \in {17, 18, 19, 20}} \cup
    {<<16, lp, 2, 3>> : lp \in {17, 18, 19, 20}} \cup
    {<<1, lp, 2, 16, 3>> : lp \in {7, 18, 20}} \cup
    {<<17, 3>>, <<1, 7, 2, 1, 3>>}

ParallelOrders ==
    {<<8, 9, 32, 10, 3>>, <<1, 8, 32, 33, 9, 10, 2, 3>>,
     <<8, 8, 9, 10, 32, 10, 3>>, <<8, 10, 3>>, <<8, 32, 2, 10>>}

FallbackOrders ==
    {<<c, 3>> : c \in (34..40) \cup {43, 44}}
       \cup {<<1, c, 2, 3>> : c \in {6, 34, 35}}

\* IRs that go back: a JUMP and a LOOP whose exit_index is before them
BackwardOrders == {<<11, 41>>, <<11, 42>>, <<1, 42, 3>>, <<11, 2, 41, 3>>}

ScenarioOrders ==
    BranchOrders \cup LoopOrders \cup ParallelOrders \cup FallbackOrders
       \cup BackwardOrders

InitSvm ==
    /\ order \in AllOrders \cup ScenarioOrders
    /\ ip = 0 /\ regs = EmptyRegs /\ svm = "running"
    /\ returned = FALSE /\ ndisp = 0 /\ nextId = 0 /\ last = NoLast
    /\ chain = <<>> /\ tampered = FALSE /\ drains = 0
    /\ InitExtIdle
    /\ InitBufIdle
    /\ InitNodeIdle

NextSvm == SvmStep

SpecSvm == InitSvm /\ [][NextSvm]_vars

\* Svm::execute is one future that execute_ir awaits: while its external
\* calls return, it takes its next step
SpecSvmFair == InitSvm /\ [][NextSvm]_vars /\ WF_vars(SvmStep)

\* C10: once the main loop dispatched a RETURN the execution is over: it
\* is done with the register file of that moment, and afterwards no
\* instruction is dispatched and no register is written.
C10_ReturnEndsExecution ==
    [][/\ (~returned /\ returned') => (svm' = "done" /\ regs' = regs)
       /\ returned => (svm = "done" /\ svm' = "done" /\ regs' = regs
                       /\ ndisp' = ndisp /\ ip' = ip)]_vars

C10_Witness ==
    returned /\ svm = "done" /\ ip > 0 /\ ip + 1 < Len(order) /\ regs[1].some

\* the main loop dispatches an instruction of one of the opcodes in this step
Dispatch(ops) ==
    /\ Dispatching(ops)
    /\ <<ip, regs, svm, ndisp, last, chain>>' # <<ip, regs, svm, ndisp, last, chain>>

\* the JSON values that count as false
FalsyValues == {JNull, JBool(FALSE), JNum(0), JStr(0), JArr(0), JObj(0)}

\* the register src[n] of the instruction names, when it was written
SrcReg(instr, n) ==
    IF n + 1 <= Len(instr.src) /\ instr.src[n + 1] \in RegIds
    THEN regs[instr.src[n + 1]] ELSE None

\* C11: a BRANCH whose src[0] register holds a truthy value sets ip to the
\* first position of target_instruction in the order, or to the end of the
\* order when the target is not in it; otherwise ip becomes ip + 1.  The
\* condition is false exactly for an absent register, null, false, 0, "",
\* [] and {}.
C11_BranchTarget ==
    [][Dispatch({"BRANCH"}) =>
         LET cond   == SrcReg(CurInstr, 0)
             target == CurInstr.target_instruction
         IN  /\ svm' = "running" /\ regs' = regs
             /\ IF ~cond.some \/ cond.v \in FalsyValues
                THEN ip' = ip + 1
                ELSE IF \A k \in 1..Len(order) : order[k] # target
                THEN ip' = Len(order)
                ELSE /\ ip' < Len(order) /\ order[ip' + 1] = target
                     /\ \A k \in 1..ip' : order[k] # target]_vars

\* a BRANCH on [1] jumped to a target that the order does not hold
C11_Witness ==
    /\ order = <<29, 4, 2, 3>> /\ ndisp = 2 /\ ip = 4 /\ svm = "running"
    /\ regs[1] = Some(JArr(1)) /\ ~regs[2].some

\* C12: a LOOP with max_iterations M, M = 0 included, runs its body for at
\* most M full iterations and takes no body step once the predicate is
\* true; after the loop ip is the position of exit_index.
C12_LoopBound ==
    [][(Dispatch({"LOOP"}) /\ CurInstr.loop_operands.present) =>
         LET lo == CurInstr.loop_operands
             rv == IF lo.register_index \in RegIds
                   THEN SerOpt(regs[lo.register_index]) ELSE JNull
         IN  /\ last'.iter <= lo.max_iterations
             /\ (lo.max_iterations = 0 => last'.steps = 0 /\ svm' = "running")
             /\ (lo.pred /\ eval_predicate(rv, lo.operator, lo.value)
                   => last'.steps = 0 /\ svm' = "running")
             /\ (svm' = "running" => ip' = resolve_ip(order, lo.exit_index))
        ]_vars

\* the positions of the order that make the body of the LOOP
BodyOf(lo) ==
    {k \in 1..Len(order) : /\ k > resolve_ip(order, lo.body_start_index)
                           /\ k <= resolve_ip(order, lo.exit_index)}

\* C13: a body step of a LOOP executes the body instruction it is at, so
\* after a LOOP that completed an iteration over a LOAD_RESOURCE the
\* destination of that instruction holds its value; the LOOP with
\* max_iterations 10 and predicate R5 == 3 whose body brings R5 to 3 ends
\* before its 10th iteration with R5 = 3 and ip at exit_index.
C13_LoopBodyExecutes ==
    [][(Dispatch({"LOOP"}) /\ CurInstr.loop_operands.present) =>
         LET lo == CurInstr.loop_operands
         IN  /\ \A k \in BodyOf(lo) :
                   (last'.iter >= 1 /\ order[k] = 16) => regs'[5] = Some(JNum(3))
             /\ (order = <<1, 20, 2, 16, 3>> =>
                   /\ svm' = "running" /\ last'.iter < 10
                   /\ regs'[5] = Some(JNum(3))
                   /\ ip' = resolve_ip(order, lo.exit_index))]_vars

\* C14: a PARALLEL_SPAWN that has a matching PARALLEL_MERGE writes, whatever
\* the order in which the calls complete, the result of each collected
\* LLM_CALL to the dest of that call (null when the call failed), writes no
\* other register and continues one past the matching PARALLEL_MERGE.
C14_ParallelSpawn ==
    [][Dispatch({"PARALLEL_SPAWN"}) =>
         LET sc      == SpawnScan(order, ip + 1, 1, ip + 1, <<>>)
             matched == /\ sc.merge_ip < Len(order)
                        /\ order[sc.merge_ip + 1] \in DOMAIN Instructions
                        /\ OpcodeOf(Instructions[order[sc.merge_ip + 1]])
                              = "PARALLEL_MERGE"
             res     == last'.results
             into(r) == {k \in 1..Len(sc.calls) :
                            Instructions[sc.calls[k]].dest = r}
         IN  matched =>
               /\ svm' = "running" /\ ip' = sc.merge_ip + 1
               /\ Len(res) = Len(sc.calls)
               /\ \A r \in RegIds :
                     IF into(r) = {} THEN regs'[r] = regs[r]
                     ELSE LET k == CHOOSE k \in into(r) :
                                      \A j \in into(r) : j <= k
                          IN  regs'[r] = Some(IF res[k].ok THEN res[k].v
                                              ELSE JNull)]_vars

\* two calls were collected; the second one failed and left null in its
\* dest, the first one left its value in its own
C14_Witness ==
    /\ order = <<8, 9, 32, 10, 3>> /\ ndisp = 1 /\ ip = 4
    /\ last.results[2] = Err /\ regs[1] = Some(JNull)
    /\ last.results[1].ok /\ regs[2] = Some(last.results[1].v)
    /\ regs[2] # regs[1] /\ ~regs[3].some

CallOps == {"CALL_SERVICE", "CALL_ACTION", "CALL_MCP", "LLM_CALL"}

\* the safe default the operands_json of the instruction carries, under
\* either spelling of the key
ConfiguredDefault(instr) ==
    IF instr.safe_default.some THEN instr.safe_default ELSE instr.safeDefault

\* the strategy name the operands_json carries selects FAIL_SAFE: it is
\* FAIL_SAFE, absent, or no strategy name at all
SelectsFailSafe(instr) ==
    instr.strategy \notin
        (Strategies \ {"FAIL_SAFE"}) \cup {"degraded-mode", "retry-with-backoff"}

\* C16: a CALL_SERVICE whose endpoint answers non-2xx and whose
\* operands_json is {"strategy":"FAIL_SAFE","safe_default":42} is invoked
\* exactly once, the slice goes on and dest holds 42; a failed call under
\* FAIL_SAFE (also with the strategy absent or unknown) yields the
\* configured safe_default, null when none is configured.
C16_FailSafeDefault ==
    [][(Dispatch(CallOps) /\ last'.errs >= 1 /\ SelectsFailSafe(CurInstr)) =>
         /\ last'.calls = 1
         /\ svm' = "running" /\ ip' = ip + 1
         /\ regs'[CurInstr.dest] = Some(SerOpt(ConfiguredDefault(CurInstr)))
         /\ (CurIdx = 34 => regs'[3] = Some(JNum(42)))]_vars

\* the strategy name the operands_json carries selects RETRY_WITH_BACKOFF
SelectsRetry(instr) ==
    instr.operands_ok
    /\ instr.strategy \in {"RETRY_WITH_BACKOFF", "retry-with-backoff"}

\* C17: under RETRY_WITH_BACKOFF with max_attempts m (a value below 1
\* counts as 1) the operation is invoked at most m times and not again
\* after its first success, the wait before attempt k >= 2 is
\* base_ms * 2^min(k - 2, 6), and when every attempt failed the last
\* error is returned without any other fallback.
C17_RetryWithBackoff ==
    [][(Dispatch(CallOps \cup {"LOAD_RESOURCE"}) /\ SelectsRetry(CurInstr)
          /\ last'.permit # "timeout") =>
         LET m    == Max(IF CurInstr.maxAttempts.some
                         THEN CurInstr.maxAttempts.v ELSE 3, 1)
             base == IF CurInstr.backoffBaseMs.some
                     THEN CurInstr.backoffBaseMs.v ELSE U64(125, 4)
             n    == last'.calls
         IN  /\ n >= 1 /\ n <= m
             /\ svm' \in {"running", "failed"}
             /\ svm' = "running" => last'.errs = n - 1
             /\ svm' = "failed" =>
                   (last'.errs = n /\ n = m /\ regs' = regs /\ chain' = chain)
             /\ Len(last'.waits) = n - 1
             /\ \A k \in 2..n :
                   last'.waits[k - 1] = ShlExact(base, Min(k - 2, 6))]_vars

\* C19: when the permit of a CALL_SERVICE or CALL_ACTION is not acquired in
\* time, the timeout goes to the fallback engine, so that under FAIL_SAFE
\* and DEGRADED_MODE the instruction is recovered: the slice goes on with
\* the safe default, or null, in dest.
C19_PermitTimeoutFallsBack ==
    [][(Dispatch({"CALL_SERVICE", "CALL_ACTION"})
          /\ last'.permit = "timeout"
          /\ strategy_for(CurInstr).strategy \in {"FAIL_SAFE", "DEGRADED_MODE"})
        => /\ svm' = "running" /\ ip' = ip + 1
           /\ regs'[CurInstr.dest] \in
                 {Some(SerOpt(CurInstr.safeDefault)), Some(JNull)}]_vars

\* the opcodes whose arm reads src[0]
SrcReaders ==
    CallOps \cup {"STORE_MEMORY", "BRANCH", "TRANSFORM", "VALIDATE",
                  "AGGREGATE", "FILTER"}

Ended == svm \in {"done", "failed", "panicked"}

\* the model follows the execution no further
ChainFull == Len(chain) >= MaxDispatch

\* C33: execute comes to its end whatever the IR, backward JUMP and BRANCH
\* targets and a LOOP whose exit_index is at or before the LOOP included;
\* and when it returns Ok, a RETURN was reached or the order is exhausted
C33_ExecuteTerminates ==
    /\ [](svm = "done" => (returned \/ ip >= Len(order)))
    /\ (svm = "running") ~> (Ended \/ ChainFull)

AuditedOps == {"LOAD_RESOURCE", "CALL_SERVICE", "CALL_ACTION", "LLM_CALL"}

\* the event types of the events the step appended to the chain
AppendedTypes ==
    [k \in 1..(Len(chain') - Len(chain)) |-> chain'[Len(chain) + k].event_type]

\* the calls of a PARALLEL_SPAWN that returned a value, as event types in
\* the order of the calls
RECURSIVE CompletedCalls(_)
CompletedCalls(results) ==
    IF results = <<>> THEN <<>>
    ELSE (IF Head(results).ok THEN <<"LLM_CALL">> ELSE <<>>)
         \o CompletedCalls(Tail(results))

\* C34: every LOAD_RESOURCE, CALL_SERVICE, CALL_ACTION and LLM_CALL that
\* completes appends exactly one audit event of its type at the end of the
\* chain, a PARALLEL_SPAWN one LLM_CALL event for every call of it that
\* completed, and no other opcode appends or removes an event: the events
\* of a slice are in the order in which its audited opcodes were executed
C34_AuditInProgramOrder ==
    [][/\ Dispatch(KnownOpcodes) => SubSeq(chain', 1, Len(chain)) = chain
       /\ (Dispatch(AuditedOps) /\ svm' = "running")
             => AppendedTypes = <<CurOp>>
       /\ (Dispatch({"PARALLEL_SPAWN"}) /\ svm' = "running")
             => AppendedTypes = CompletedCalls(last'.results)
       /\ Dispatch(KnownOpcodes \ (AuditedOps \cup {"PARALLEL_SPAWN"}))
             => chain' = chain]_vars

\* C37: a call whose strategy is not RETRY_WITH_BACKOFF never ends the
\* slice: when the operation fails it is invoked once and dest holds the
\* recovered value; apply_simple recovers under every strategy, also when
\* it is handed RETRY_WITH_BACKOFF; a call ends the slice only when its
\* strategy is RETRY_WITH_BACKOFF and every attempt failed; and a call that
\* fails inside a PARALLEL_SPAWN does not end the slice
C37_OnlyRetryAborts ==
    [][/\ (Dispatch(CallOps \cup {"LOAD_RESOURCE"})
             /\ last'.permit # "timeout") =>
            /\ ~SelectsRetry(CurInstr) =>
                  /\ svm' = "running" /\ ip' = ip + 1
                  /\ regs'[CurInstr.dest].some
                  /\ last'.calls = 1
                  /\ (last'.errs = 1 /\ SelectsFailSafe(CurInstr)) =>
                        regs'[CurInstr.dest]
                           = Some(SerOpt(CurInstr.safeDefault))
                  /\ (last'.errs = 1
                         /\ CurInstr.strategy = "SUPERVISED_RECOMPILE") =>
                        regs'[CurInstr.dest]
                           = Some(SerOpt(CurInstr.safeDefault))
                  /\ (last'.errs = 1 /\ CurInstr.strategy = "DEGRADED_MODE")
                        => regs'[CurInstr.dest] = Some(JNull)
            /\ svm' = "failed" =>
                  /\ SelectsRetry(CurInstr)
                  /\ last'.errs = last'.calls
                  /\ last'.calls = Max(IF CurInstr.maxAttempts.some
                                       THEN CurInstr.maxAttempts.v ELSE 3, 1)
            /\ \A s \in Strategies :
                  \A r \in apply_simple([strategy |-> s,
                                         safe_default |-> CurInstr.safeDefault,
                                         max_attempts |-> 3,
                                         backoff_base_ms |-> U64(125, 4)]) :
                     r.ok
       /\ Dispatch({"PARALLEL_SPAWN"}) => svm' # "failed"]_vars

\* the notification endpoint aside, the operation of a LOAD_RESOURCE under
\* SUPERVISED_RECOMPILE failed once and dest holds the safe default
C37_Witness ==
    /\ order = <<44, 3>> /\ ndisp = 1 /\ svm = "running" /\ ip = 1
    /\ last.calls = 1 /\ last.errs = 1
    /\ regs[3] = Some(JNum(42))

\* the opcode at position p of the order, positions counted from 0
OpAt(p) ==
    IF order[p + 1] \in DOMAIN Instructions
    THEN OpcodeOf(Instructions[order[p + 1]]) ELSE "absent"

\* an IR without JUMP, BRANCH and LOOP
Straight ==
    \A p \in 0..(Len(order) - 1) : OpAt(p) \notin {"JUMP", "BRANCH", "LOOP"}

\* how many PARALLEL_SPAWNs opened at or after `from` are open after p
Depth(from, p) ==
    Cardinality({q \in from..p : OpAt(q) = "PARALLEL_SPAWN"})
       - Cardinality({q \in from..p : OpAt(q) = "PARALLEL_MERGE"})

\* the PARALLEL_MERGEs that close the PARALLEL_SPAWN at `from`
Merges(from) ==
    {p \in (from + 1)..(Len(order) - 1) :
        OpAt(p) = "PARALLEL_MERGE" /\ Depth(from, p) = 0}

\* the position of the matching PARALLEL_MERGE, or the end of the order
RegionEnd(from) ==
    IF Merges(from) = {} THEN Len(order)
    ELSE CHOOSE p \in Merges(from) : \A q \in Merges(from) : p <= q

\* the LLM_CALLs the PARALLEL_SPAWN at `from` launches
Launched(from) ==
    {p \in (from + 1)..(RegionEnd(from) - 1) : OpAt(p) = "LLM_CALL"}

\* C38: in an IR without JUMP, BRANCH and LOOP the main loop only goes
\* forward, so no instruction is dispatched twice; after a PARALLEL_SPAWN
\* it continues behind every LLM_CALL the spawn launched; and the
\* positions it steps over are launched LLM_CALLs or lie between the
\* PARALLEL_SPAWN and its matching PARALLEL_MERGE
C38_DispatchedOnce ==
    [][Straight =>
         /\ (Dispatch(KnownOpcodes) /\ svm' = "running") => ip' > ip
         /\ (Dispatch({"PARALLEL_SPAWN"}) /\ svm' = "running") =>
               /\ Len(last'.results) = Cardinality(Launched(ip))
               /\ \A p \in Launched(ip) : p < ip'
               /\ \A p \in (ip + 1)..(Min(ip', Len(order)) - 1) :
                     \/ p \in Launched(ip)
                     \/ Merges(ip) # {} /\ p <= RegionEnd(ip)]_vars

\* ---- the offline buffer on its own
EnqueueAuditEvent ==
    /\ Len(enq) < MaxEnq
    /\ Enqueue("AuditEvent", Len(enq) + 1)
    /\ UNCHANGED <<max_size, is_online, disk, auditVars, chain, svmVars,
                   nodeVars>>
    /\ UNCHANGED extVars

EnqueueExecutionResult ==
    /\ Len(enq) < MaxEnq
    /\ Enqueue("ExecutionResult", Len(enq) + 1)
    /\ UNCHANGED <<max_size, is_online, disk, auditVars, chain, svmVars,
                   nodeVars>>
    /\ UNCHANGED extVars

EnqueueTriggerFire ==
    /\ Len(enq) < MaxEnq
    /\ Enqueue("TriggerFire", Len(enq) + 1)
    /\ UNCHANGED <<max_size, is_online, disk, auditVars, chain, svmVars,
                   nodeVars>>
    /\ UNCHANGED extVars

\* OfflineBuffer::new(path, max_size), for every max_size up to MaxK
InitBuf ==
    /\ queue = <<>> /\ max_size \in 0..MaxK /\ is_online = FALSE
    /\ disk = NoFile /\ enq = <<>>
    /\ chain = <<>> /\ tampered = FALSE /\ drains = 0
    /\ InitExtIdle
    /\ InitSvmIdle
    /\ InitNodeIdle

NextBuf == EnqueueAuditEvent \/ EnqueueExecutionResult \/ EnqueueTriggerFire

SpecBuf == InitBuf /\ [][NextBuf]_vars

\* the last n elements of a sequence
LastN(q, n) == SubSeq(q, Len(q) - n + 1, Len(q))

\* C3: after n enqueues on an empty buffer of max_size k, len() is
\* min(n, k) and the buffer holds the most recent envelopes in enqueue order.
C3_LenIsMinOfEnqueuesAndMax ==
    /\ Len(queue) = Min(Len(enq), max_size)
    /\ queue = LastN(enq, Len(queue))

\* ----------------------------------------------------------- link session
MaxSessions == 2      \* connection attempts explored
MaxMsgs     == 2      \* frames from the central explored

\* config.ir_version_major (default 1)
NodeMajor == 1

\* execution orders of the IRs the central distributes in this model
NodeOrders ==
    {<<1, 2, 3>>, <<1, 0>>, <<8, 9, 10, 6>>, <<11, 10, 5>>, <<4, 7, 2, 3>>,
     <<2, 3>>, <<38, 3>>}

\* persistence files a previous run of the node may have left
InitialDisks ==
    {NoFile,
     [exists |-> TRUE,
      lines |-> <<[form |-> "json", kind |-> "AUDIT_EVENT", payload |-> 901,
                   enqueued_at |-> 0],
                  Blank,
                  [form |-> "json", kind |-> "EXECUTION_RESULT",
                   payload |-> 902, enqueued_at |-> 0]>>],
     [exists |-> TRUE,
      lines |-> <<Garbage,
                  [form |-> "json", kind |-> "TRIGGER_FIRE", payload |-> 903,
                   enqueued_at |-> 0]>>]}

NodeMaxSizes == {0, 2}

Frame(type, events, status, error, audit_events) ==
    [type |-> type, events |-> events, status |-> status, error |-> error,
     audit_events |-> audit_events]

Msg(type, version, checksum, ord) ==
    [NoMsg EXCEPT !.type = type, !.version = version, !.checksum = checksum,
                  !.order = ord]

\* a send on the link succeeds while the link is up
SendOk == link = "up"

InSession == pc \in {"register", "flush", "serve", "exec", "reply"}

\* the transport breaks
LinkDrop ==
    /\ InSession /\ link = "up"
    /\ link' = "down"
    /\ UNCHANGED <<pc, sessions, msgs, sent, cur, pending, delivered,
                   ws_connected, offline_depth, alerts, auditVars, chain,
                   bufVars, svmVars>>
    /\ UNCHANGED extVars

\* run: buf.load() before the reconnect loop
RunLoad ==
    /\ pc = "load"
    /\ queue' = load(queue, disk, max_size)
    /\ pc' = "connect"
    /\ UNCHANGED <<link, sessions, msgs, sent, cur, pending, delivered,
                   ws_connected, offline_depth, alerts, auditVars, chain,
                   max_size, is_online, disk, enq, svmVars>>
    /\ UNCHANGED extVars

\* connect_and_run: connect_async; on success notify_connected(true) and
\* set_ws_connected(true), on failure the session ends with the error
Connect ==
    /\ pc = "connect" /\ sessions < MaxSessions
    /\ sessions' = sessions + 1
    /\ \E ok \in BOOLEAN :
         IF ok
         THEN /\ link' = "up" /\ is_online' = TRUE /\ ws_connected' = TRUE
              /\ sent' = <<>> /\ pc' = "register"
         ELSE /\ pc' = "cleanup"
              /\ UNCHANGED <<link, is_online, ws_connected, sent>>
    /\ UNCHANGED <<msgs, cur, pending, delivered, offline_depth, alerts,
                   auditVars, chain, queue, max_size, disk, enq, svmVars>>
    /\ UNCHANGED extVars

\* connect_and_run: write.send(REGISTER).await?
Register ==
    /\ pc = "register"
    /\ IF SendOk
       THEN /\ sent' = Append(sent, Frame("REGISTER", <<>>, "", FALSE, <<>>))
            /\ pc' = "flush"
       ELSE /\ pc' = "cleanup" /\ UNCHANGED sent
    /\ UNCHANGED <<link, sessions, msgs, cur, pending, delivered,
                   ws_connected, offline_depth, alerts, auditVars, chain,
                   bufVars, svmVars>>
    /\ UNCHANGED extVars

\* a plausible slip: every envelope re-enqueued as an audit event
ReenqueueAsAudit(kind) == "AuditEvent"

\* flush_offline_events: the enqueue_* a drained envelope is put back with
ReenqueueKind(kind) ==
    CASE kind = "AuditEvent"      -> "AuditEvent"
      [] kind = "ExecutionResult" -> "ExecutionResult"
      [] kind = "TriggerFire"     -> "TriggerFire"

\* flush_offline_events, Err arm: for ev in events { buf.enqueue_*(payload) }
RECURSIVE Reenqueue(_, _, _, _)
Reenqueue(q, events, k, at) ==
    IF events = <<>> THEN q
    ELSE Reenqueue(push(q, k, Envelope(ReenqueueKind(Head(events).kind),
                                       Head(events).payload, at)),
                   Tail(events), k, at + 1)

RECURSIVE ReenqueueLog(_, _)
ReenqueueLog(events, at) ==
    IF events = <<>> THEN <<>>
    ELSE <<Envelope(ReenqueueKind(Head(events).kind), Head(events).payload,
                    at)>>
         \o ReenqueueLog(Tail(events), at + 1)

\* a plausible slip: the drained envelopes leave newest first
drain_reversed(q) == [k \in 1..Len(q) |-> q[Len(q) + 1 - k]]

\* OfflineBuffer::drain_for_flush: self.queue.drain(..).collect()
drain_for_flush(q) == q

\* flush_offline_events
Flush ==
    /\ pc = "flush"
    /\ pc' = "serve"
    /\ IF queue = <<>>
       THEN UNCHANGED <<queue, enq, disk, sent>>
       ELSE LET events == drain_for_flush(queue)
            IN  IF SendOk
                THEN /\ sent' = Append(sent,
                                   Frame("AUDIT_FLUSH", ToJsonAll(events), "",
                                         FALSE, <<>>))
                     /\ queue' = <<>>
                     /\ disk' = clear_disk(disk)
                     /\ UNCHANGED enq
                ELSE /\ queue' = Reenqueue(<<>>, events, max_size, Timestamp)
                     /\ enq' = enq \o ReenqueueLog(events, Timestamp)
                     /\ UNCHANGED <<disk, sent>>
    /\ UNCHANGED <<link, sessions, msgs, cur, pending, delivered,
                   ws_connected, offline_depth, alerts, auditVars, chain,
                   max_size, is_online, svmVars>>
    /\ UNCHANGED extVars

\* orders carried by the binary artifacts of this model
BinaryOrders == {<<1, 2, 3>>, <<1, 0>>}

Versions  == {0, 1, 2}
Checksums == {"empty", "match", "mismatch"}

\* payload of the ExecutionResult envelope execute_ir enqueues:
\* {"workflowId": .., "status": "FAILED", "error": ..}
FailedPayload == 500

Serving == pc = "serve" /\ link = "up" /\ msgs < MaxMsgs

\* svm.execute(ir, &mut audit) is entered
StartExecute(ord) ==
    /\ order' = ord /\ ip' = 0 /\ regs' = EmptyRegs /\ svm' = "running"
    /\ returned' = FALSE /\ ndisp' = 0
    /\ last' = NoLast
    /\ UNCHANGED nextId

\* handle_text_message, "IR_DISTRIBUTION" with a decodable artifact:
\* execute_ir_from_payload decodes the IR and calls execute_ir
RecvTextIr ==
    /\ Serving
    /\ msgs' = msgs + 1
    /\ \E o \in NodeOrders :
         /\ cur' = [Msg("TEXT_IR", 0, "empty", o) EXCEPT
                        !.runs = 1, !.events_before = nextId]
         /\ StartExecute(o)
    /\ pc' = "exec"
    /\ UNCHANGED <<link, sessions, sent, pending, delivered, ws_connected,
                   offline_depth, alerts, auditVars, bufVars>>
    /\ UNCHANGED extVars

\* an artifact whose version is neither 0 nor the node's major
Incompatible(version) == version # 0 /\ version # NodeMajor

\* verify_artifact_signature: the digest is compared when one is declared
ChecksumRejected(checksum) == checksum = "mismatch"

\* handle_binary_message with a decodable IRDistributionMessage
RecvBinary ==
    /\ Serving
    /\ msgs' = msgs + 1
    /\ \E v \in Versions, c \in Checksums, o \in BinaryOrders :
         LET m == [Msg("BINARY", v, c, o) EXCEPT !.version_checked = TRUE]
         IN  IF Incompatible(v)
             THEN /\ alerts' = alerts + 1
                  /\ cur' = [m EXCEPT !.alerts = 1]
                  /\ pc' = "serve"
                  /\ UNCHANGED svmVars
             ELSE IF ChecksumRejected(c)
             THEN /\ cur' = m
                  /\ pc' = "serve"
                  /\ UNCHANGED <<alerts, svmVars>>
             ELSE /\ cur' = [m EXCEPT !.digest_equal = (c = "match"),
                                      !.runs = 1, !.events_before = nextId]
                  /\ pc' = "exec"
                  /\ StartExecute(o)
                  /\ UNCHANGED alerts
    /\ UNCHANGED <<link, sessions, sent, pending, delivered, ws_connected,
                   offline_depth, auditVars, bufVars>>
    /\ UNCHANGED extVars

\* frames the handlers drop with a log line (CONFIG_UPDATE, an unknown
\* type) or with a warning (BAD: text that is no JSON or carries no
\* artifact, a binary frame that does not decode)
RecvIgnored ==
    /\ Serving
    /\ msgs' = msgs + 1
    /\ \E t \in {"CONFIG_UPDATE", "BAD"} :
         cur' = Msg(t, 0, "empty", <<>>)
    /\ UNCHANGED <<pc, link, sessions, sent, pending, delivered,
                   ws_connected, offline_depth, alerts, auditVars, chain,
                   bufVars, svmVars>>
    /\ UNCHANGED extVars

\* a JSON "PING" or a websocket Ping: the answer is sent next
RecvPing ==
    /\ Serving
    /\ msgs' = msgs + 1
    /\ \E t \in {"PING", "WS_PING"} : cur' = Msg(t, 0, "empty", <<>>)
    /\ pending' = NoResult
    /\ pc' = "reply"
    /\ UNCHANGED <<link, sessions, sent, delivered, ws_connected,
                   offline_depth, alerts, auditVars, chain, bufVars, svmVars>>
    /\ UNCHANGED extVars

\* read.next() ends the loop: a Close frame, a read error, end of stream
RecvEnd ==
    /\ pc = "serve"
    /\ pc' = "cleanup"
    /\ UNCHANGED <<link, sessions, msgs, sent, cur, pending, delivered,
                   ws_connected, offline_depth, alerts, auditVars, chain,
                   bufVars, svmVars>>
    /\ UNCHANGED extVars

\* ids of the events of a chain, in order
\* regs.iter().map(|(k, v)| (*k, v.to_string())).collect(): the JSON text
\* of every register that was written
OutputRegisters(rg) ==
    [r \in {x \in DOMAIN rg : rg[x].some} |-> <<"text", rg[r].v>>]

RECURSIVE EventIdsOf(_)
EventIdsOf(ch) ==
    IF ch = <<>> THEN <<>> ELSE <<Head(ch).event_id>> \o EventIdsOf(Tail(ch))

\* a plausible slip: the failure is enqueued whatever the link state
is_buffering_always(online) == TRUE

\* OfflineBuffer::is_buffering
is_buffering(online) == ~online

\* execute_ir after svm.execute returned, its locals gone: the registers
\* are moved into the result.  Ok: the chain is drained into
\* the result (the JSON view of the text path, ResultJson, has no
\* audit_events field).  Err: a FAILED result with no audit events; the
\* chain is left as it is and the failure is enqueued if is_buffering().
ExecuteIrDone ==
    /\ pc = "exec" /\ svm \in {"done", "failed"}
    /\ IF svm = "done"
       THEN /\ chain' = <<>>
            /\ drains' = drains + 1
            /\ pending' = [status |-> "SUCCESS", error |-> FALSE,
                           audit_events |-> IF cur.type = "BINARY"
                                            THEN EventIdsOf(chain) ELSE <<>>,
                           drained |-> EventIdsOf(chain),
                           output_registers |-> OutputRegisters(regs)]
            /\ UNCHANGED <<queue, enq, offline_depth>>
       ELSE /\ offline_depth' = Len(queue)
            /\ IF is_buffering(is_online)
               THEN Enqueue("ExecutionResult", FailedPayload)
               ELSE UNCHANGED <<queue, enq>>
            /\ pending' = [status |-> "FAILED", error |-> TRUE,
                           audit_events |-> <<>>, drained |-> <<>>,
                           output_registers |-> <<>>]
            /\ UNCHANGED <<chain, drains>>
    /\ cur' = [cur EXCEPT !.status = IF svm = "done" THEN "SUCCESS"
                                     ELSE "FAILED",
                          !.link_at_result = link]
    /\ svm' = "idle"
    /\ order' = <<>> /\ ip' = 0 /\ regs' = EmptyRegs
    /\ returned' = FALSE /\ ndisp' = 0 /\ last' = NoLast
    /\ pc' = "reply"
    /\ UNCHANGED <<link, sessions, msgs, sent, delivered, ws_connected,
                   alerts, tampered, max_size, is_online, disk, nextId>>
    /\ UNCHANGED extVars

\* a panic inside svm.execute unwinds through execute_ir, the handler,
\* connect_and_run and run into main: the process ends, its socket closes
ExecutePanics ==
    /\ pc = "exec" /\ svm = "panicked"
    /\ pc' = "crashed"
    /\ link' = "down"
    /\ UNCHANGED <<sessions, msgs, sent, cur, pending, delivered,
                   ws_connected, offline_depth, alerts, auditVars, chain,
                   bufVars, svmVars>>
    /\ UNCHANGED extVars

\* a plausible slip: every frame that is answered gets a RESULT
ReplyAlwaysResult ==
    Frame("RESULT", <<>>, pending.status, pending.error, pending.audit_events)

\* the frame a handler answers with
ReplyFrame ==
    CASE cur.type = "PING"    -> Frame("PONG", <<>>, "", FALSE, <<>>)
      [] cur.type = "WS_PING" -> Frame("WS_PONG", <<>>, "", FALSE, <<>>)
      [] OTHER -> Frame("RESULT", <<>>, pending.status, pending.error,
                        pending.audit_events)

\* write.send(..) of a handler.  A failed send of a RESULT or of a JSON
\* PONG is an error of the handler, which the message loop logs; a failed
\* websocket Pong ends the session.
Reply ==
    /\ pc = "reply"
    /\ IF SendOk
       THEN /\ sent' = Append(sent, ReplyFrame)
            /\ delivered' = delivered \cup
                  {ReplyFrame.audit_events[k] :
                      k \in 1..Len(ReplyFrame.audit_events)}
            /\ pc' = "serve"
       ELSE /\ pc' = IF cur.type = "WS_PING" THEN "cleanup" ELSE "serve"
            /\ UNCHANGED <<sent, delivered>>
    /\ cur' = [cur EXCEPT !.reply = ReplyFrame.type, !.reply_ok = SendOk]
    /\ pending' = NoResult
    /\ UNCHANGED <<link, sessions, msgs, ws_connected, offline_depth,
                   alerts, auditVars, chain, bufVars, svmVars>>
    /\ UNCHANGED extVars

\* run, after connect_and_run returned: mark offline and persist
Cleanup ==
    /\ pc = "cleanup"
    /\ ws_connected' = FALSE
    /\ is_online' = FALSE
    /\ offline_depth' = Len(queue)
    /\ disk' = persist(queue, disk)
    /\ link' = "down"
    /\ pc' = "sleep"
    /\ UNCHANGED <<sessions, msgs, sent, cur, pending, delivered, alerts,
                   auditVars, chain, queue, max_size, enq, svmVars>>
    /\ UNCHANGED extVars

\* run: sleep(reconnect_interval_secs), then the next iteration
Sleep ==
    /\ pc = "sleep" /\ sessions < MaxSessions
    /\ pc' = "connect"
    /\ UNCHANGED <<link, sessions, msgs, sent, cur, pending, delivered,
                   ws_connected, offline_depth, alerts, auditVars, chain,
                   bufVars, svmVars>>
    /\ UNCHANGED extVars

\* NodeClient::new + OfflineBuffer::new + AuditChain::new, with the
\* persistence file a previous run may have left
Init ==
    /\ pc = "load" /\ link = "down" /\ sessions = 0 /\ msgs = 0
    /\ sent = <<>> /\ cur = NoMsg /\ pending = NoResult
    /\ delivered = {} /\ ws_connected = FALSE /\ offline_depth = 0
    /\ alerts = 0
    /\ queue = <<>> /\ max_size \in NodeMaxSizes /\ is_online = FALSE
    /\ disk \in InitialDisks /\ enq = <<>>
    /\ chain = <<>> /\ tampered = FALSE /\ drains = 0
    /\ InitExtIdle
    /\ InitSvmIdle

Next ==
    \/ RunLoad
    \/ Connect
    \/ Register
    \/ Flush
    \/ LinkDrop
    \/ RecvTextIr
    \/ RecvBinary
    \/ RecvIgnored
    \/ RecvPing
    \/ RecvEnd
    \/ SvmStep
    \/ ExecuteIrDone
    \/ ExecutePanics
    \/ Reply
    \/ Cleanup
    \/ Sleep

Spec == Init /\ [][Next]_vars

\* ---- claims about the link session
FlushFrames == {k \in 1..Len(sent) : sent[k].type = "AUDIT_FLUSH"}

C5_FailedFlushReenqueues ==
    [][(pc = "flush" /\ pc' = "serve" /\ queue # <<>> /\ link = "down") =>
         /\ Len(queue') = Len(queue)
         /\ \A k \in 1..Len(queue) :
              /\ queue'[k].kind = queue[k].kind
              /\ queue'[k].payload = queue[k].payload
         /\ disk' = disk
         /\ sent' = sent]_vars

C5_Witness ==
    /\ pc = "serve" /\ link = "down" /\ Len(enq) = 2 /\ Len(queue) = 2
    /\ queue[1].kind = "AuditEvent" /\ queue[2].kind = "ExecutionResult"
    /\ queue[2].enqueued_at # 0
    /\ disk.exists

\* payloads of the envelopes that come from the persistence file
DiskPayloads == {901, 902, 903}

\* C6: a result the node produces while the link is down is enqueued into
\* the offline buffer (a FAILED one as a FAILED ExecutionResult envelope).
C6_ProducedOfflineIsBuffered ==
    (pc = "reply" /\ cur.runs = 1 /\ cur.link_at_result = "down") =>
        \E k \in 1..Len(queue) :
            /\ queue[k].kind = "ExecutionResult"
            /\ queue[k].payload \notin DiskPayloads
            /\ (cur.status = "FAILED" => queue[k].payload = FailedPayload)

\* audit events of the chain / of the AuditEvent envelopes of the buffer
ChainIds  == {chain[k].event_id : k \in 1..Len(chain)}
QueuedIds == {queue[k].payload :
                 k \in {j \in 1..Len(queue) : queue[j].kind = "AuditEvent"}}
InFlightIds == {pending.drained[k] : k \in 1..Len(pending.drained)}

\* C7: every audit event appended by an execution is delivered to the
\* central or still held by the node (chain, offline buffer, or the result
\* about to be sent).
C7_NoAuditEventLost ==
    \A id \in 1..nextId :
        id \in delivered \cup ChainIds \cup QueuedIds \cup InFlightIds

\* C8: a binary artifact of another non-zero major version is not
\* executed, raises one security-alert POST and is answered with a FAILED
\* slice result; a version-0 artifact that passes the digest check runs.
C8_VersionRefusal ==
    (pc = "serve" /\ cur.type = "BINARY") =>
        /\ Incompatible(cur.version) =>
              /\ cur.runs = 0 /\ cur.alerts = 1
              /\ cur.reply = "RESULT" /\ cur.status = "FAILED"
        /\ (cur.version = 0 /\ ~ChecksumRejected(cur.checksum)) =>
              cur.runs = 1

\* C9: the executor runs only on an artifact whose major version was
\* compared with the node's and whose digest was found equal to the
\* declared one, on the binary and on the JSON path.
C9_ChecksBeforeExecute ==
    svm = "running" => (cur.version_checked /\ cur.digest_equal)

\* C15: the IR [LOAD_RESOURCE(dest 1, operands {"k":"v"}),
\* STORE_MEMORY(dest 2, src [1]), RETURN] ends with status SUCCESS, with
\* R1 = R2 = {"k":"v"} and with exactly 2 audit events.
C15_LoadStoreReturn ==
    (pc = "reply" /\ cur.type \in {"BINARY", "TEXT_IR"}
        /\ cur.order = <<1, 2, 3>>) =>
       /\ pending.status = "SUCCESS"
       /\ pending.output_registers =
             (1 :> <<"text", JObj(1)>>) @@ (2 :> <<"text", JObj(1)>>)
       /\ Len(pending.drained) = 2

\* C18: when an instruction fails and no fallback recovers it, execute stops
\* at that instruction: its dest is not written, it leaves no audit event
\* and no later instruction is dispatched; the node answers with a FAILED
\* result that carries an error and neither registers nor audit events.
C18_FailureAborts ==
    [][/\ (svm = "running" /\ svm' = "failed") =>
             (regs' = regs /\ chain' = chain /\ nextId' = nextId /\ ip' = ip)
       /\ svm = "failed" =>
             /\ pc = "exec"
             /\ ndisp' = ndisp \/ ndisp' = 0
             /\ chain' = chain
             /\ svm' # "failed" =>
                   /\ svm' = "idle" /\ pc' = "reply"
                   /\ pending'.status = "FAILED" /\ pending'.error
                   /\ pending'.audit_events = <<>>
                   /\ pending'.output_registers = <<>>
       /\ (pc = "reply" /\ cur.status = "FAILED" /\ sent' # sent) =>
             sent' = Append(sent, Frame("RESULT", <<>>, "FAILED", TRUE, <<>>))
      ]_vars

\* the last CALL_SERVICE of a slice failed after a PARALLEL_SPAWN had run:
\* the FAILED result went out
C18_Witness ==
    /\ cur.order = <<8, 9, 10, 6>> /\ cur.status = "FAILED"
    /\ cur.reply = "RESULT" /\ cur.reply_ok
    /\ Len(sent) > 0
    /\ sent[Len(sent)] = Frame("RESULT", <<>>, "FAILED", TRUE, <<>>)

\* C22: run never ends and no failure leaves it: whenever a session is over
\* (handshake failure, REGISTER not sent, read error, close) it marks the
\* link and the buffer offline, persists the buffer, sleeps and then
\* connects again.
C22_RunLoopsForever ==
    [][/\ pc' # "crashed"
       /\ pc = "cleanup" =>
             /\ pc' = "sleep"
             /\ ~ws_connected' /\ ~is_online'
             /\ offline_depth' = Len(queue)
             /\ disk' = persist(queue, disk)
       /\ pc = "sleep" => pc' = "connect"]_vars

\* C23: every transport error ends the session and leads to the cleanup of
\* run: a failed handshake, a failed REGISTER send, an incoming frame that
\* does not decode, and a failed send of a RESULT, a PONG or a websocket
\* Pong; the session does not go back to serving
C23_TransportErrorEndsSession ==
    [][/\ (pc = "connect" /\ sessions' = sessions + 1 /\ link' # "up")
            => pc' = "cleanup"
       /\ (pc = "register" /\ ~SendOk /\ pc' # "register")
            => pc' = "cleanup"
       /\ (pc = "serve" /\ msgs' = msgs + 1 /\ cur'.type = "BAD")
            => pc' = "cleanup"
       /\ (pc = "reply" /\ ~SendOk /\ pc' # "reply")
            => pc' = "cleanup"]_vars

\* HealthState::is_healthy: the depth from which the node is degraded
DegradedDepth == 1000

\* HealthState::is_healthy, over the two atomics other modules set
is_healthy == ws_connected /\ offline_depth < DegradedDepth

\* HealthState::to_json: the "status" field
HealthStatus == IF is_healthy THEN "ok" ELSE "degraded"

\* health::run, "/ready": the status code of the answer
ReadyCode == IF is_healthy THEN 200 ELSE 503

\* the flush of this session was sent and nothing was sent after it
FlushedOnReconnect ==
    /\ pc = "serve" /\ sent # <<>>
    /\ sent[Len(sent)].type = "AUDIT_FLUSH"

\* C26: the probe says "ok", and /ready answers 200, exactly when the link
\* is connected and the offline buffer holds fewer than 1000 envelopes at
\* that moment; after a flush that was sent on reconnect the depth the
\* probe reports is the depth of the buffer, which is empty
C26_HealthReflectsBuffer ==
    /\ HealthStatus = "ok" <=> (ws_connected /\ Len(queue) < DegradedDepth)
    /\ ReadyCode = 200 <=> (ws_connected /\ Len(queue) < DegradedDepth)
    /\ FlushedOnReconnect =>
          /\ queue = <<>>
          /\ offline_depth = Len(queue)

\* the frame the step added to those the central received
SentNow == sent'[Len(sent')]

\* C35: the first frame of a session is REGISTER; an AUDIT_FLUSH is the
\* frame right after it, before every RESULT and PONG; a RESULT answers an
\* IR distribution the node received and executed in this session, a PONG
\* answers a PING, and nothing else is sent
C35_SessionFrameOrder ==
    [][(sent' # sent /\ sent' # <<>>) =>
         /\ sent' = Append(sent, SentNow)
         /\ sent = <<>> <=> SentNow.type = "REGISTER"
         /\ SentNow.type = "AUDIT_FLUSH" =>
               (Len(sent) = 1 /\ sent[1].type = "REGISTER")
         /\ SentNow.type = "RESULT" =>
               /\ cur.type \in {"TEXT_IR", "BINARY"} /\ cur.runs = 1
               /\ cur.status \in {"SUCCESS", "FAILED"}
               /\ pc = "reply"
         /\ SentNow.type = "PONG" => (cur.type = "PING" /\ pc = "reply")
         /\ SentNow.type = "WS_PONG" => (cur.type = "WS_PING" /\ pc = "reply")
         /\ SentNow.type \in {"REGISTER", "AUDIT_FLUSH", "RESULT", "PONG",
                               "WS_PONG"}]_vars

\* a session in which the buffer was flushed, a slice executed and a PING
\* answered
C35_Witness ==
    /\ Len(sent) = 4
    /\ sent[1].type = "REGISTER" /\ sent[2].type = "AUDIT_FLUSH"
    /\ sent[3].type = "RESULT" /\ sent[4].type = "PONG"

C39_ResultCarriesOwnEvents ==
    (pc = "reply" /\ pending.status = "SUCCESS") =>
       pending.drained =
          [k \in 1..(nextId - cur.events_before) |-> cur.events_before + k]

\* ---- inputs of the audit-chain specification
EventIds   == {101, 102}
EventTypes == {"LOAD_RESOURCE", "CALL_SERVICE"}
Outputs    == {Some(JObj(1))}
MaxDrains  == 2

AuditFields ==
    {"event_id", "timestamp", "node_id", "workflow_id", "workflow_version",
     "instruction_id", "event_type", "input_hash", "output_hash",
     "duration_ms", "details", "previous_event_hash", "self_hash",
     "signature", "public_key_hex"}

\* a changed value of field f of a stored event (hashes not recomputed)
TamperedValue(ev, f) ==
    CASE f \in {"timestamp", "node_id", "workflow_id",
                "event_type", "public_key_hex"} -> "tampered"
      [] f = "event_id"         -> ev.event_id + 1000
      [] f = "workflow_version" -> SomeInt(ev.workflow_version.v + 1)
      [] f = "instruction_id"   -> SomeStr("tampered")
      [] f \in {"input_hash", "output_hash"} -> sha256_str(JNum(99))
      [] f = "duration_ms"      -> ev.duration_ms + 1
      [] f = "details"          -> Some(JNum(7))
      [] OTHER                  -> <<"tampered">>

\* AuditChain::append, as the executor calls it
AuditAppend ==
    /\ Len(chain) < MaxChain
    /\ \E id \in EventIds, ty \in EventTypes, out \in Outputs :
         chain' = Append(chain,
                    NewEvent(chain, id, "t0", "wf", SomeInt(1),
                             SomeStr("svc"), ty, None, out, 0, None))
    /\ UNCHANGED <<tampered, drains, bufVars, svmVars, nodeVars>>
    /\ UNCHANGED extVars

\* AuditChain::drain (a modified event leaves the chain with the others)
AuditDrain ==
    /\ drains < MaxDrains
    /\ chain' = <<>>
    /\ drains' = drains + 1
    /\ tampered' = FALSE
    /\ UNCHANGED <<bufVars, svmVars, nodeVars>>
    /\ UNCHANGED extVars

\* outside modification of one field of one stored event
AuditTamper ==
    /\ ~tampered
    /\ \E i \in 1..Len(chain), f \in AuditFields :
         chain' = [chain EXCEPT ![i] =
                     [chain[i] EXCEPT ![f] = TamperedValue(chain[i], f)]]
    /\ tampered' = TRUE
    /\ UNCHANGED <<drains, bufVars, svmVars, nodeVars>>
    /\ UNCHANGED extVars

InitAudit ==
    /\ chain = <<>> /\ tampered = FALSE /\ drains = 0
    /\ InitExtIdle
    /\ InitBufIdle
    /\ InitSvmIdle
    /\ InitNodeIdle

NextAudit == AuditAppend \/ AuditDrain \/ AuditTamper

SpecAudit == InitAudit /\ [][NextAudit]_vars

\* C1: with no outside modification, verify succeeds with the current
\* number of events, the first event of the chain (after construction or
\* after a drain) carries 64 zeros as previous_event_hash, and every later
\* event carries the hash of its predecessor's full serialization.
C1_VerifyReturnsLength ==
    ~tampered =>
        /\ verify(chain) = [ok |-> TRUE, n |-> Len(chain)]
        /\ (Len(chain) > 0 => chain[1].previous_event_hash = ZeroHash)
        /\ \A i \in 2..Len(chain) :
              chain[i].previous_event_hash = sha256_str(EventJson(chain[i - 1]))

C1_Witness == ~tampered /\ drains > 0 /\ Len(chain) = MaxChain

\* C2: changing one field of a stored event makes verify fail, at the
\* earliest position whose self hash or linkage no longer matches.
C2_TamperDetected ==
    tampered =>
        /\ ~verify(chain).ok
        /\ VerifyAt(chain, verify(chain).n + 1) # "ok"
        /\ \A j \in 1..verify(chain).n : VerifyAt(chain, j) = "ok"

\* ---- the resource arbiter: tasks that dispatch a CALL_SERVICE or a
\* ---- CALL_ACTION with a priority_policy on the same Svm
Tasks        == 1..3
MaxRounds    == 2      \* dispatches explored per task
MaxWaits     == {0, 100}
ResourceKeys == {"service_default"}

\* acquire_resource_permit: the deadline of tokio::time::timeout
Deadline(max_wait_ms) == IF max_wait_ms = 0 THEN 50 ELSE max_wait_ms

\* the clock of the model advances by the grace period
TickMs == Deadline(0)

\* a plausible slip: a semaphore that admits two holders
SemaphoreOfTwo(resource_key) == [permits |-> 2, waiters |-> <<>>]

\* Arc::new(Semaphore::new(1))
NewSemaphore(resource_key) == [permits |-> 1, waiters |-> <<>>]

\* write.entry(resource_key).or_insert_with(..).clone(): the map and the
\* semaphores after it; the entry is the last semaphore when it was created
or_insert_with(map, sems, resource_key) ==
    IF map[resource_key] # 0 THEN [map |-> map, sems |-> sems]
    ELSE [map  |-> [map EXCEPT ![resource_key] = Len(sems) + 1],
          sems |-> Append(sems, NewSemaphore(resource_key))]

\* a task outside execute
NoTask ==
    [st |-> "start", key |-> "service_default", max_wait_ms |-> 0, sem |-> 0,
     permit |-> FALSE, waited |-> 0, result |-> "none", rounds |-> 0]

\* the tasks that wait for a permit
Waiting == {p \in Tasks : arb.task[p].st = "waiting"}

InitArb ==
    \E w \in [Tasks -> MaxWaits] :
       arb = [map   |-> [k \in ResourceKeys |-> 0],
              sems  |-> <<>>,
              task  |-> [p \in Tasks |->
                           [NoTask EXCEPT !.max_wait_ms = w[p]]]]

\* self.resource_arbiter.read().await.get(resource_key)
ArbLookup(p) ==
    /\ arb.task[p].st = "start" /\ arb.task[p].rounds < MaxRounds
    /\ LET t == arb.task[p]
           found == arb.map[t.key] # 0
       IN  arb' = [arb EXCEPT
                     !.task[p] = [t EXCEPT
                        !.st = IF found THEN "acquire" ELSE "create",
                        !.sem = arb.map[t.key], !.result = "none",
                        !.waited = 0, !.rounds = t.rounds + 1]]
    /\ UNCHANGED <<coreVars, vault, mcu>>

\* the write-locked half of the double-checked lookup
ArbCreate(p) ==
    /\ arb.task[p].st = "create"
    /\ LET t == arb.task[p]
           e == or_insert_with(arb.map, arb.sems, t.key)
       IN  arb' = [arb EXCEPT
                     !.map = e.map, !.sems = e.sems,
                     !.task[p] = [t EXCEPT !.st = "acquire",
                                           !.sem = e.map[t.key]]]
    /\ UNCHANGED <<coreVars, vault, mcu>>

\* the first poll of timeout(deadline, sem.acquire_owned()): the permit is
\* taken when the semaphore has one, else the task queues
PermitAcquire(p) ==
    /\ arb.task[p].st = "acquire"
    /\ LET t == arb.task[p]
           sm == arb.sems[t.sem]
       IN  IF sm.permits > 0
           THEN arb' = [arb EXCEPT
                          !.sems[t.sem].permits = sm.permits - 1,
                          !.task[p] = [t EXCEPT !.st = "call",
                                                !.permit = TRUE]]
           ELSE arb' = [arb EXCEPT
                          !.sems[t.sem].waiters = Append(sm.waiters, p),
                          !.task[p] = [t EXCEPT !.st = "waiting"]]
    /\ UNCHANGED <<coreVars, vault, mcu>>

\* TickMs pass; no timer is left behind its deadline
PermitTick ==
    /\ Waiting # {}
    /\ \A p \in Waiting :
          arb.task[p].waited + TickMs <= Deadline(arb.task[p].max_wait_ms)
    /\ arb' = [arb EXCEPT
                 !.task = [p \in Tasks |->
                             IF p \in Waiting
                             THEN [arb.task[p] EXCEPT
                                      !.waited = arb.task[p].waited + TickMs]
                             ELSE arb.task[p]]]
    /\ UNCHANGED <<coreVars, vault, mcu>>

\* the sequence without its elements equal to x
RECURSIVE Without(_, _)
Without(q, x) ==
    IF q = <<>> THEN <<>>
    ELSE IF Head(q) = x THEN Without(Tail(q), x)
    ELSE <<Head(q)>> \o Without(Tail(q), x)

\* the deadline elapsed: the Acquire future is dropped with its place in the
\* queue, the opcode arm returns the error and so does execute
PermitTimeout(p) ==
    /\ arb.task[p].st = "waiting"
    /\ arb.task[p].waited >= Deadline(arb.task[p].max_wait_ms)
    /\ LET t == arb.task[p]
       IN  arb' = [arb EXCEPT
                     !.sems[t.sem].waiters = Without(arb.sems[t.sem].waiters, p),
                     !.task[p] = [t EXCEPT !.st = "start",
                                           !.result = "permit_timeout"]]
    /\ UNCHANGED <<coreVars, vault, mcu>>

\* the call made under the permit ends, well or not, and the arm with it:
\* _permit goes out of scope at the end of the arm and at its `?`.
\* Semaphore::add_permits hands a released permit to the first waiter.
CallEnds(p) ==
    /\ arb.task[p].st = "call"
    /\ \E ok \in BOOLEAN :
         LET t  == arb.task[p]
             sm == arb.sems[t.sem]
             done == [t EXCEPT !.st = "start",
                               !.result = IF ok THEN "ok" ELSE "error",
                               !.permit = FALSE]
         IN  IF sm.waiters = <<>>
             THEN arb' = [arb EXCEPT !.sems[t.sem].permits = sm.permits + 1,
                                     !.task[p] = done]
             ELSE LET w == Head(sm.waiters)
                  IN  arb' = [arb EXCEPT
                                !.sems[t.sem].waiters = Tail(sm.waiters),
                                !.task[p] = done,
                                !.task[w] = [arb.task[w] EXCEPT
                                               !.st = "call", !.permit = TRUE]]
    /\ UNCHANGED <<coreVars, vault, mcu>>

InitPermit ==
    /\ InitArb
    /\ InitVaultIdle /\ InitMcuIdle
    /\ chain = <<>> /\ tampered = FALSE /\ drains = 0
    /\ InitBufIdle
    /\ InitSvmIdle
    /\ InitNodeIdle

NextPermit ==
    \/ \E p \in Tasks : ArbLookup(p)
    \/ \E p \in Tasks : ArbCreate(p)
    \/ \E p \in Tasks : PermitAcquire(p)
    \/ PermitTick
    \/ \E p \in Tasks : PermitTimeout(p)
    \/ \E p \in Tasks : CallEnds(p)

SpecPermit == InitPermit /\ [][NextPermit]_vars

\* the tasks that hold a permit of the key
Holders(k) == {p \in Tasks : arb.task[p].permit /\ arb.task[p].key = k}

MaxTicks   == 4
MaxFetches == 3
MaxFlushes == 2

\* VaultClient::new: cache_ttl: Duration::from_secs(30)
cache_ttl == 30

\* the clock of the resolver advances by a third of the TTL
TickSecs == cache_ttl \div 3

SecretPaths == {"sap/api-key", "OPENAI_API_KEY"}

\* path_to_env_key: upper case, '/', '-' and '.' become '_', prefixed
path_to_env_key(path) ==
    CASE path = "sap/api-key"    -> "VAULT_SECRET_SAP_API_KEY"
      [] path = "OPENAI_API_KEY" -> "VAULT_SECRET_OPENAI_API_KEY"

\* path.to_uppercase().replace('/', "_").replace('-', "_")
raw_key(path) ==
    CASE path = "sap/api-key"    -> "SAP_API_KEY"
      [] path = "OPENAI_API_KEY" -> "OPENAI_API_KEY"

\* the variables the environment of the process may define
EnvNames == {"VAULT_SECRET_SAP_API_KEY", "OPENAI_API_KEY"}

\* values the remote store holds over time
StoreValues == {"sk-1", "sk-2"}

\* the value of an environment variable
EnvValue(name) == "env:" \o name

NoEntry == [some |-> FALSE, value |-> "", expires_at |-> 0]

\* a fetch that has not happened
NoFetch ==
    [some |-> FALSE, path |-> "", at |-> 0, requests |-> 0, hit |-> FALSE,
     ok |-> FALSE, value |-> "", source |-> ""]

InitVault ==
    \E configured \in BOOLEAN, env \in SUBSET EnvNames :
       vault = [configured |-> configured, env |-> env, now |-> 0,
                cache   |-> [p \in SecretPaths |-> NoEntry],
                fetched |-> NoFetch,
                origin  |-> [p \in SecretPaths |-> NoFetch],
                fetches |-> 0]

\* Instant::now() moves on
VaultTick ==
    /\ vault.now < MaxTicks * TickSecs
    /\ vault' = [vault EXCEPT !.now = vault.now + TickSecs]
    /\ UNCHANGED <<coreVars, arb, mcu>>

\* steps 3 and 4 of fetch_secret: VAULT_SECRET_<..>, then the raw key
FromEnv(path, env) ==
    IF path_to_env_key(path) \in env
    THEN [ok |-> TRUE, value |-> EnvValue(path_to_env_key(path)),
          source |-> "EnvVar"]
    ELSE IF raw_key(path) \in env
    THEN [ok |-> TRUE, value |-> EnvValue(raw_key(path)),
          source |-> "RawEnvKey"]
    ELSE [ok |-> FALSE, value |-> "", source |-> ""]

\* answers of fetch_from_hashicorp: a value, or an error (transport, HTTP
\* status, body)
RemoteAnswers == {[ok |-> TRUE, value |-> v] : v \in StoreValues}
                     \cup {[ok |-> FALSE, value |-> ""]}

\* fetch_secret(path) with the answer the remote store gives if it is asked
fetch_secret(path, answer) ==
    LET entry    == vault.cache[path]
        hit      == entry.some /\ entry.expires_at > vault.now
        \* an expired entry is removed
        cache1   == IF entry.some /\ ~hit
                    THEN [vault.cache EXCEPT ![path] = NoEntry]
                    ELSE vault.cache
        asked    == ~hit /\ vault.configured
        fromEnv  == FromEnv(path, vault.env)
        res      == IF hit
                    THEN [ok |-> TRUE, value |-> entry.value,
                          source |-> "HashiCorpVault"]
                    ELSE IF asked /\ answer.ok
                    THEN [ok |-> TRUE, value |-> answer.value,
                          source |-> "HashiCorpVault"]
                    ELSE fromEnv
        cache2   == IF asked /\ answer.ok
                    THEN [cache1 EXCEPT ![path] =
                            [some |-> TRUE, value |-> answer.value,
                             expires_at |-> vault.now + cache_ttl]]
                    ELSE cache1
        f        == [some |-> TRUE, path |-> path, at |-> vault.now,
                     requests |-> IF asked THEN 1 ELSE 0, hit |-> hit,
                     ok |-> res.ok, value |-> res.value,
                     source |-> res.source]
    IN  [vault EXCEPT !.cache = cache2, !.fetched = f,
                      !.origin[path] = IF hit THEN @ ELSE f,
                      !.fetches = @ + 1]

FetchSecret(path) ==
    /\ vault.fetches < MaxFetches
    /\ \E answer \in RemoteAnswers :
         \* the store is only heard when it is asked
         /\ (~vault.configured => ~answer.ok)
         /\ vault' = fetch_secret(path, answer)
    /\ UNCHANGED <<coreVars, arb, mcu>>

InitSecrets ==
    /\ InitVault
    /\ InitArbIdle /\ InitMcuIdle
    /\ chain = <<>> /\ tampered = FALSE /\ drains = 0
    /\ InitBufIdle
    /\ InitSvmIdle
    /\ InitNodeIdle

NextSecrets ==
    \/ VaultTick
    \/ \E path \in SecretPaths : FetchSecret(path)

SpecSecrets == InitSecrets /\ [][NextSecrets]_vars

\* C24: a fetch of a path that follows, within the TTL, a fetch of the same
\* path answered by the store or by the environment asks the store nothing,
\* whichever way that fetch was answered; and no fetch is served from an
\* entry whose TTL has elapsed
C24_RepeatedFetchAsksNothing ==
    [][\A path \in SecretPaths :
          (vault'.fetches = vault.fetches + 1 /\ vault'.fetched.path = path)
          => /\ (/\ vault.origin[path].some /\ vault.origin[path].ok
                 /\ vault.now < vault.origin[path].at + cache_ttl)
                => vault'.fetched.requests = 0
             /\ (/\ vault.origin[path].some
                 /\ vault.now >= vault.origin[path].at + cache_ttl)
                => ~vault'.fetched.hit]_vars

\* ---- the offline buffer and its file: enqueues, persist, and a restart
\* ---- of the process that loads the file into a new buffer
DiskFiles ==
    InitialDisks \cup
    {[exists |-> TRUE,
      lines |-> <<[form |-> "json", kind |-> "AUDIT_EVENT", payload |-> 904,
                   enqueued_at |-> 0],
                  Garbage,
                  [form |-> "json", kind |-> "TRIGGER_FIRE", payload |-> 905,
                   enqueued_at |-> 0],
                  Blank,
                  [form |-> "json", kind |-> "EXECUTION_RESULT",
                   payload |-> 906, enqueued_at |-> 0]>>]}

InitDisk ==
    /\ queue = <<>> /\ max_size \in 0..MaxK /\ is_online = FALSE
    /\ disk \in DiskFiles /\ enq = <<>>
    /\ chain = <<>> /\ tampered = FALSE /\ drains = 0
    /\ InitExtIdle
    /\ InitSvmIdle
    /\ InitNodeIdle

\* buf.persist()
BufPersist ==
    /\ disk' = persist(queue, disk)
    /\ UNCHANGED <<queue, max_size, is_online, enq, auditVars, chain,
                   svmVars, nodeVars>>
    /\ UNCHANGED extVars

\* the process starts again: OfflineBuffer::new(path, max_size), buf.load()
BufRestart ==
    /\ queue' = load(<<>>, disk, max_size)
    /\ is_online' = FALSE
    /\ UNCHANGED <<max_size, disk, enq, auditVars, chain, svmVars,
                   nodeVars>>
    /\ UNCHANGED extVars

NextDisk ==
    \/ EnqueueAuditEvent
    \/ EnqueueExecutionResult
    \/ EnqueueTriggerFire
    \/ BufPersist
    \/ BufRestart

SpecDisk == InitDisk /\ [][NextDisk]_vars

\* the envelopes of the lines that parse, in the order of the lines
RECURSIVE Parsed(_)
Parsed(lines) ==
    IF lines = <<>> THEN <<>>
    ELSE (IF FromJson(Head(lines)).ok THEN <<FromJson(Head(lines)).ev>>
          ELSE <<>>) \o Parsed(Tail(lines))

\* C25: a queue of at most max_size envelopes that was persisted comes
\* back the same, in order, when the file is loaded into an empty buffer of
\* the same max_size; a load takes the envelopes of the lines that parse,
\* in order, and skips the others; it leaves at most max_size envelopes in
\* the queue; and a persist of an empty queue leaves a file without lines
C25_PersistLoadRoundTrip ==
    [][/\ (disk' = disk /\ enq' = enq) =>
            /\ (disk = persist(queue, disk) /\ Len(queue) <= max_size)
                  => queue' = queue
            /\ queue' = load(<<>>, disk, max_size) =>
                  /\ queue' = SubSeq(Parsed(disk.lines), 1, Len(queue'))
                  /\ Len(queue') <= max_size
       /\ (queue' = queue /\ enq' = enq /\ queue = <<>>)
            => disk'.lines = <<>>]_vars

\* ---- the microcontroller: its offline ring (eyeflow-svm-mcu offline.rs)
MaxPush == 131

\* const OFFLINE_CAPACITY: usize = 128
OFFLINE_CAPACITY == 128

\* u16::MAX + 1
U16 == 65536

\* OfflineEntry; entry_type is the enum variant
OfflineEntry(entry_type, flags, value) ==
    [entry_type |-> entry_type, flags |-> flags, value |-> value]

\* OfflineBuffer::new
NewRing == [queue |-> <<>>, dropped |-> 0, link_up |-> FALSE]

\* a plausible slip: a full ring refuses the new entry and counts it
mcu_push_keep_oldest(ring, entry) ==
    IF Len(ring.queue) < OFFLINE_CAPACITY
    THEN [ring EXCEPT !.queue = Append(@, entry)]
    ELSE [ring EXCEPT !.dropped = @ + 1]

\* OfflineBuffer::push: push_back; on a full deque pop_front, dropped += 1
\* and push_back again.  dropped is a u32: the calls of this model stay far
\* below the 2^32 drops at which the addition would overflow
mcu_push(ring, entry) ==
    IF Len(ring.queue) < OFFLINE_CAPACITY
    THEN [ring EXCEPT !.queue = Append(@, entry)]
    ELSE [ring EXCEPT !.queue = Append(Tail(@), entry),
                      !.dropped = @ + 1]

\* OfflineBuffer::enqueue_report
enqueue_report(ring, value) ==
    mcu_push(ring, OfflineEntry("Report", 0, value))

\* OfflineBuffer::enqueue_action_result
enqueue_action_result(ring, value, urgent) ==
    mcu_push(ring, OfflineEntry("ActionResult", IF urgent THEN 1 ELSE 0,
                                value))

\* OfflineBuffer::flush_pending
flush_pending(ring) ==
    IF ~ring.link_up THEN ring
    ELSE IF Len(ring.queue) = 0 THEN ring
    ELSE [ring EXCEPT !.queue = <<>>, !.dropped = 0]

\* OfflineBuffer::set_link_up
set_link_up(ring, up) == [ring EXCEPT !.link_up = up]

\* OfflineBuffer::pending and OfflineBuffer::dropped
ring_pending(ring) == Len(ring.queue)
ring_dropped(ring) == ring.dropped

\* what the callers of the ring enqueue, call after call
Scripts == {"reports", "results", "mixed"}

\* the k-th call of a script: the entry it enqueues
ScriptEntry(script, k) ==
    CASE script = "reports" -> OfflineEntry("Report", 0, k % U16)
      [] script = "results" -> OfflineEntry("ActionResult", 1, k % U16)
      [] OTHER -> IF k % 2 = 1 THEN OfflineEntry("Report", 0, k % U16)
                  ELSE OfflineEntry("ActionResult", (k \div 2) % 2, k % U16)

\* the entries of calls a..b of a script, in call order
ScriptEntries(script, a, b) ==
    [i \in 1..(b - a + 1) |-> ScriptEntry(script, a + i - 1)]

\* the ring with its callers: n counts the enqueues since the last flush
\* that went through
InitRing ==
    /\ \E script \in Scripts :
         mcu = [ring |-> NewRing, script |-> script, n |-> 0, calls |-> 0,
                flushes |-> 0]
    /\ InitArbIdle /\ InitVaultIdle
    /\ chain = <<>> /\ tampered = FALSE /\ drains = 0
    /\ InitBufIdle
    /\ InitSvmIdle
    /\ InitNodeIdle

RingEnqueueReport ==
    /\ mcu.calls < MaxPush
    /\ ScriptEntry(mcu.script, mcu.n + 1).entry_type = "Report"
    /\ mcu' = [mcu EXCEPT
                 !.ring = enqueue_report(@, ScriptEntry(mcu.script,
                                                        mcu.n + 1).value),
                 !.n = @ + 1, !.calls = @ + 1]
    /\ UNCHANGED <<coreVars, arb, vault>>

RingEnqueueActionResult ==
    /\ mcu.calls < MaxPush
    /\ ScriptEntry(mcu.script, mcu.n + 1).entry_type = "ActionResult"
    /\ LET e == ScriptEntry(mcu.script, mcu.n + 1)
       IN  mcu' = [mcu EXCEPT
                     !.ring = enqueue_action_result(@, e.value, e.flags = 1),
                     !.n = @ + 1, !.calls = @ + 1]
    /\ UNCHANGED <<coreVars, arb, vault>>

RingSetLinkUp ==
    /\ \E up \in BOOLEAN :
         /\ up # mcu.ring.link_up
         /\ mcu' = [mcu EXCEPT !.ring = set_link_up(@, up)]
    /\ UNCHANGED <<coreVars, arb, vault>>

RingFlushPending ==
    /\ mcu.flushes < MaxFlushes
    /\ mcu' = [mcu EXCEPT !.ring = flush_pending(@),
                          !.n = IF mcu.ring.link_up THEN 0 ELSE @,
                          !.flushes = @ + 1]
    /\ UNCHANGED <<coreVars, arb, vault>>

NextRing ==
    \/ RingEnqueueReport
    \/ RingEnqueueActionResult
    \/ RingSetLinkUp
    \/ RingFlushPending

SpecRing == InitRing /\ [][NextRing]_vars

\* C28: after n enqueues with no flush in between pending() is min(n, 128)
\* and dropped() is max(n - 128, 0), and the ring holds the most recent
\* entries in the order of their enqueue; a flush_pending while the link is
\* down changes nothing
C28_RingKeepsNewest ==
    [][/\ ring_pending(mcu.ring') = Min(mcu'.n, OFFLINE_CAPACITY)
       /\ ring_dropped(mcu.ring') = Max(mcu'.n - OFFLINE_CAPACITY, 0)
       /\ mcu.ring'.queue =
             ScriptEntries(mcu.script,
                           mcu'.n - ring_pending(mcu.ring') + 1, mcu'.n)
       /\ (mcu'.flushes = mcu.flushes + 1 /\ ~mcu.ring.link_up)
            => mcu.ring' = mcu.ring]_vars

\* the ring overflowed by three entries and a flush found the link down
C28_Witness ==
    /\ mcu.n = OFFLINE_CAPACITY + 3 /\ mcu.flushes > 0
    /\ ~mcu.ring.link_up
    /\ ring_dropped(mcu.ring) = 3 /\ ring_pending(mcu.ring) = OFFLINE_CAPACITY
    /\ mcu.script = "mixed"

\* ---- the microcontroller: MicroSvm::execute on the frames the edge link
\* ---- hands to execute_svm_frame (eyeflow-svm-mcu svm.rs, main.rs)
MaxProg     == 2
MaxMcuSteps == 4

MAGIC_HI       == 239
MAGIC_LO       == 241
IR_VERSION     == 1
HEADER_LEN     == 8
INSTR_LEN      == 8
MAX_SERVICE_ID == 64

\* payload[i], for a slice indexed from 0
Byte(payload, i) == payload[i + 1]

\* u16::from_be_bytes([hi, lo])
from_be_bytes(hi, lo) == hi * 256 + lo

\* Registers::zero_flag and Registers::error_flag: bits 0 and 2 of flags
zero_flag(flags)  == flags % 2 = 1
error_flag(flags) == (flags \div 4) % 2 = 1

\* a plausible slip: the Zero flag set when the value is not zero
set_zero_negated(flags, v) ==
    IF ~v THEN (IF zero_flag(flags) THEN flags ELSE flags + 1)
    ELSE (IF zero_flag(flags) THEN flags - 1 ELSE flags)

\* Registers::set_zero: flags |= 0x01 or flags &= !0x01
set_zero(flags, v) ==
    IF v THEN (IF zero_flag(flags) THEN flags ELSE flags + 1)
    ELSE (IF zero_flag(flags) THEN flags - 1 ELSE flags)

\* Registers::set_error: flags |= 0x04 or flags &= !0x04
set_error(flags, v) ==
    IF v THEN (IF error_flag(flags) THEN flags ELSE flags + 4)
    ELSE (IF error_flag(flags) THEN flags - 4 ELSE flags)

\* SvmResult
SvmOk(n)            == [kind |-> "Ok", n |-> n]
ValidationError(c)  == [kind |-> "ValidationError", n |-> c]
RuntimeError(c)     == [kind |-> "RuntimeError", n |-> c]
OfflineQueued(n)    == [kind |-> "OfflineQueued", n |-> n]
NoSvmResult         == [kind |-> "none", n |-> 0]

\* a plausible slip: the length of the instruction block checked before
\* the version
validate_length_first(payload) ==
    IF Len(payload) < HEADER_LEN THEN 1
    ELSE IF Byte(payload, 0) # MAGIC_HI \/ Byte(payload, 1) # MAGIC_LO THEN 2
    ELSE IF Len(payload) < HEADER_LEN
               + from_be_bytes(Byte(payload, 4), Byte(payload, 5)) * INSTR_LEN
    THEN 4
    ELSE IF Byte(payload, 2) # IR_VERSION THEN 3
    ELSE 0

\* execute, header validation: the code of the ValidationError, 0 if none
validate(payload) ==
    IF Len(payload) < HEADER_LEN THEN 1
    ELSE IF Byte(payload, 0) # MAGIC_HI \/ Byte(payload, 1) # MAGIC_LO THEN 2
    ELSE IF Byte(payload, 2) # IR_VERSION THEN 3
    ELSE IF Len(payload) < HEADER_LEN
               + from_be_bytes(Byte(payload, 4), Byte(payload, 5)) * INSTR_LEN
    THEN 4
    ELSE 0

\* instructions: opcode and seven operand bytes
McuInstr(opcode, o0, o1, o2) == <<opcode, o0, o1, o2, 0, 0, 0, 0>>

McuInstrs ==
    {McuInstr(1, 0, 0, 1), McuInstr(1, 1, 0, 10), McuInstr(1, 3, 0, 1),
     McuInstr(1, 4, 0, 1), McuInstr(1, 64, 0, 1),
     McuInstr(2, 2, 1, 0), McuInstr(2, 9, 1, 0),
     McuInstr(4, 1, 0, 0), McuInstr(4, 10, 0, 0),
     McuInstr(5, 0, 0, 0),
     McuInstr(3, 1, 1, 0)}
    \cup {McuInstr(3, c, 0, t) : c \in {0, 1, 2, 3, 7}, t \in {0, 1, 2}}

RECURSIVE Concat(_)
Concat(seqs) ==
    IF seqs = <<>> THEN <<>> ELSE Head(seqs) \o Concat(Tail(seqs))

\* headers: magic, version, flags, the declared num_instr, reserved
McuHeader(hi, lo, version, flags, num_instr) ==
    <<hi, lo, version, flags, num_instr \div 256, num_instr % 256, 0, 0>>

\* the frames the edge node may send with an instruction block b: well
\* formed ones, and ones with a wrong magic, a wrong version, more
\* instructions declared than sent, or cut inside the header
McuFrames(b) ==
    LET n == Len(b) \div INSTR_LEN
    IN  {McuHeader(MAGIC_HI, MAGIC_LO, 1, 1, n) \o b,
         McuHeader(MAGIC_HI, MAGIC_LO, 1, 0, n) \o b,
         McuHeader(238, MAGIC_LO, 1, 1, n) \o b,
         McuHeader(MAGIC_HI, 240, 2, 1, n + 1) \o b,
         McuHeader(MAGIC_HI, MAGIC_LO, 2, 1, n) \o b,
         McuHeader(MAGIC_HI, MAGIC_LO, 0, 1, n + 1) \o b,
         McuHeader(MAGIC_HI, MAGIC_LO, 1, 1, n + 1) \o b,
         McuHeader(MAGIC_HI, MAGIC_LO, 1, 1, n + 256) \o b,
         SubSeq(McuHeader(238, MAGIC_LO, 2, 1, n + 1), 1, 7),
         <<>>}

\* values embassy_time::Instant::now().as_millis() as u16 may give
Millis == {0, 1, 65535}

\* Registers::default, and MicroSvm before any frame
NoRegisters == [i \in 0..7 |-> 0]

NoMcu ==
    [st |-> "idle", payload |-> <<>>, r |-> NoRegisters, flags |-> 0,
     output |-> <<>>, ring |-> NewRing, pc |-> 0, num_instr |-> 0,
     offline_count |-> 0, result |-> NoSvmResult, steps |-> 0,
     taken |-> FALSE]

InitMcu ==
    /\ mcu = NoMcu
    /\ InitArbIdle /\ InitVaultIdle
    /\ chain = <<>> /\ tampered = FALSE /\ drains = 0
    /\ InitBufIdle
    /\ InitSvmIdle
    /\ InitNodeIdle

\* edge_link_task has a whole frame: execute_svm_frame(payload) makes a
\* MicroSvm and an OfflineBuffer of its own and calls execute
McuReceive ==
    /\ mcu.st = "idle"
    /\ \E n \in 0..MaxProg :
         \E block \in [1..n -> McuInstrs] :
            \E f \in McuFrames(Concat(block)) :
               mcu' = [NoMcu EXCEPT !.st = "execute", !.payload = f]
    /\ UNCHANGED <<coreVars, arb, vault>>

\* execute: the header checks
McuValidate ==
    /\ mcu.st = "execute"
    /\ LET code == validate(mcu.payload)
       IN  IF code # 0
           THEN mcu' = [mcu EXCEPT !.st = "returned",
                                   !.result = ValidationError(code)]
           ELSE mcu' = [mcu EXCEPT
                          !.st = "run", !.pc = 0, !.offline_count = 0,
                          !.num_instr = from_be_bytes(Byte(mcu.payload, 4),
                                                      Byte(mcu.payload, 5))]
    /\ UNCHANGED <<coreVars, arb, vault>>

\* the instruction at pc: payload[offset..offset + INSTR_LEN]
McuFetch == SubSeq(mcu.payload, HEADER_LEN + mcu.pc * INSTR_LEN + 1,
                   HEADER_LEN + mcu.pc * INSTR_LEN + INSTR_LEN)

\* the number of instructions executed so far, counted up to MaxMcuSteps
StepsAfter(steps) == IF steps < MaxMcuSteps THEN steps + 1 ELSE steps

\* while pc < num_instr, with opcode the first byte of the instruction; an
\* execution is followed as long as fewer than MaxMcuSteps dispatches have
\* failed and fewer than MaxMcuSteps entries are in the ring
McuAt(opcodes) ==
    /\ mcu.st = "run" /\ mcu.pc < mcu.num_instr
    /\ mcu.offline_count < MaxMcuSteps
    /\ Len(mcu.ring.queue) < MaxMcuSteps
    /\ McuFetch[1] \in opcodes

\* ops[k] of the instruction at pc
Ops(k) == McuFetch[k + 2]

\* dispatch_service: Ok(value), or Err(0xFF) for an unknown id
dispatch_service(svc_id, input) ==
    CASE svc_id = 0 -> {[ok |-> TRUE, v |-> 0]}
      [] svc_id = 1 -> {[ok |-> TRUE, v |-> 2048]}
      [] svc_id = 2 -> {[ok |-> TRUE, v |-> 1500]}
      [] svc_id = 3 -> {[ok |-> TRUE, v |-> t] : t \in Millis}
      [] OTHER      -> {[ok |-> FALSE, v |-> 255]}

\* dispatch_action: the ring after it, and Ok(()) or Err(0xFF)
dispatch_action(action_id, value, ring) ==
    CASE action_id \in {0, 1, 3} -> [ok |-> TRUE, ring |-> ring]
      [] action_id = 2 -> [ok |-> TRUE, ring |-> enqueue_report(ring, value)]
      [] OTHER         -> [ok |-> FALSE, ring |-> ring]

\* 0x01 CALL_SERVICE
McuCallService ==
    /\ McuAt({1})
    /\ LET svc_id  == Ops(0)
           in_reg  == Ops(1) % 8
           out_reg == Ops(2) % 8
       IN  IF svc_id >= MAX_SERVICE_ID
           THEN mcu' = [mcu EXCEPT !.flags = set_error(@, TRUE),
                                   !.pc = @ + 1, !.steps = StepsAfter(@),
                                   !.taken = FALSE]
           ELSE \E res \in dispatch_service(svc_id, mcu.r[in_reg]) :
                  IF res.ok
                  THEN mcu' = [mcu EXCEPT
                         !.r[out_reg] = res.v,
                         !.flags = set_error(set_zero(@, res.v = 0), FALSE),
                         !.pc = @ + 1, !.steps = StepsAfter(@), !.taken = FALSE]
                  ELSE mcu' = [mcu EXCEPT
                         !.flags = set_error(@, TRUE),
                         !.offline_count = @ + 1,
                         !.pc = @ + 1, !.steps = StepsAfter(@), !.taken = FALSE]
    /\ UNCHANGED <<coreVars, arb, vault>>

\* 0x02 CALL_ACTION
McuCallAction ==
    /\ McuAt({2})
    /\ LET res == dispatch_action(Ops(0), mcu.r[Ops(1) % 8], mcu.ring)
       IN  mcu' = [mcu EXCEPT
                     !.ring = res.ring,
                     !.flags = set_error(@, ~res.ok),
                     !.offline_count = IF res.ok THEN @ ELSE @ + 1,
                     !.pc = @ + 1, !.steps = StepsAfter(@), !.taken = FALSE]
    /\ UNCHANGED <<coreVars, arb, vault>>

\* a plausible slip: an unknown condition byte branches
take_unknown(condition, flags) ==
    CASE condition = 0 -> zero_flag(flags)
      [] condition = 1 -> ~zero_flag(flags)
      [] condition = 2 -> error_flag(flags)
      [] condition = 3 -> ~error_flag(flags)
      [] OTHER         -> TRUE

\* BRANCH: whether the condition byte holds on the flags
take(condition, flags) ==
    CASE condition = 0 -> zero_flag(flags)
      [] condition = 1 -> ~zero_flag(flags)
      [] condition = 2 -> error_flag(flags)
      [] condition = 3 -> ~error_flag(flags)
      [] OTHER         -> FALSE

\* 0x03 BRANCH
McuBranch ==
    /\ McuAt({3})
    /\ LET target_pc == from_be_bytes(Ops(1), Ops(2))
       IN  IF take(Ops(0), mcu.flags)
           THEN IF target_pc >= mcu.num_instr
                THEN mcu' = [mcu EXCEPT !.st = "returned",
                                        !.result = RuntimeError(16),
                                        !.steps = StepsAfter(@), !.taken = TRUE]
                ELSE mcu' = [mcu EXCEPT !.pc = target_pc, !.steps = StepsAfter(@),
                                        !.taken = TRUE]
           ELSE mcu' = [mcu EXCEPT !.pc = @ + 1, !.steps = StepsAfter(@),
                                   !.taken = FALSE]
    /\ UNCHANGED <<coreVars, arb, vault>>

\* a plausible slip: the failed dispatches forgotten at the end
finished_ok(output, offline_count) == SvmOk(Len(output))

\* the result of a frame that came to its end
Finished(output, offline_count) ==
    IF offline_count > 0 THEN OfflineQueued(offline_count)
    ELSE SvmOk(Len(output))

\* 0x04 RETURN: the register goes to the output, high byte first
McuReturn ==
    /\ McuAt({4})
    /\ LET result == mcu.r[Ops(0) % 8]
           out    == mcu.output \o <<result \div 256, result % 256>>
       IN  mcu' = [mcu EXCEPT !.output = out, !.st = "returned",
                              !.result = Finished(out, mcu.offline_count),
                              !.steps = StepsAfter(@), !.taken = FALSE]
    /\ UNCHANGED <<coreVars, arb, vault>>

\* any other opcode
McuUnknownOpcode ==
    /\ McuAt(0..255 \ {1, 2, 3, 4})
    /\ mcu' = [mcu EXCEPT !.st = "returned", !.result = RuntimeError(32),
                          !.steps = StepsAfter(@), !.taken = FALSE]
    /\ UNCHANGED <<coreVars, arb, vault>>

\* pc reached num_instr: the implicit RETURN
McuEnd ==
    /\ mcu.st = "run" /\ mcu.pc >= mcu.num_instr
    /\ mcu' = [mcu EXCEPT !.st = "returned",
                          !.result = Finished(mcu.output, mcu.offline_count)]
    /\ UNCHANGED <<coreVars, arb, vault>>

\* execute_svm_frame, the match on the result: Ok flushes the ring
after_execute(result, ring) ==
    IF result.kind = "Ok" THEN flush_pending(ring) ELSE ring

McuResult ==
    /\ mcu.st = "returned"
    /\ mcu' = [mcu EXCEPT !.st = "matched",
                          !.ring = after_execute(mcu.result, @)]
    /\ UNCHANGED <<coreVars, arb, vault>>

\* execute_svm_frame comes to its end: its MicroSvm and its OfflineBuffer
\* are dropped
McuFrameEnd ==
    /\ mcu.st = "matched"
    /\ mcu' = NoMcu
    /\ UNCHANGED <<coreVars, arb, vault>>

NextMcu ==
    \/ McuReceive
    \/ McuValidate
    \/ McuCallService
    \/ McuCallAction
    \/ McuBranch
    \/ McuReturn
    \/ McuUnknownOpcode
    \/ McuEnd
    \/ McuResult
    \/ McuFrameEnd

SpecMcu == InitMcu /\ [][NextMcu]_vars

\* execute is one async fn that edge_link_task awaits: once a frame was
\* handed over, its steps are taken one after the other, whereas a new
\* frame may never arrive
McuProgress ==
    \/ McuValidate
    \/ McuCallService
    \/ McuCallAction
    \/ McuBranch
    \/ McuReturn
    \/ McuUnknownOpcode
    \/ McuEnd
    \/ McuResult
    \/ McuFrameEnd

SpecMcuFair == InitMcu /\ [][NextMcu]_vars /\ WF_vars(McuProgress)

\* what a payload may be wrong with
TooShort(p)     == Len(p) < 8
WrongMagic(p)   == ~(p[1] = 239 /\ p[2] = 241)
WrongVersion(p) == p[3] # 1
Truncated(p)    == Len(p) < 8 + 8 * (p[5] * 256 + p[6])

\* the header checks of the frame are over
Validated == mcu.st \in {"run", "returned"}

\* C27: a payload shorter than 8 bytes gives ValidationError(1), else one
\* with a wrong magic ValidationError(2), else one with a version other
\* than 1 ValidationError(3), else one shorter than 8 + 8 * num_instr
\* ValidationError(4); and with a ValidationError no opcode was executed:
\* registers, flags, output and ring are as they were before the frame
C27_HeaderValidation ==
    Validated =>
      LET p == mcu.payload
      IN  /\ TooShort(p) => mcu.result = ValidationError(1)
          /\ (~TooShort(p) /\ WrongMagic(p))
                => mcu.result = ValidationError(2)
          /\ (~TooShort(p) /\ ~WrongMagic(p) /\ WrongVersion(p))
                => mcu.result = ValidationError(3)
          /\ (/\ ~TooShort(p) /\ ~WrongMagic(p) /\ ~WrongVersion(p)
              /\ Truncated(p))
                => mcu.result = ValidationError(4)
          /\ mcu.result.kind = "ValidationError"
                => /\ mcu.steps = 0 /\ mcu.r = NoRegisters /\ mcu.flags = 0
                   /\ mcu.output = <<>> /\ mcu.ring = NewRing
                   /\ mcu.result.n \in 1..4

\* a frame with a wrong version and an instruction block shorter than
\* declared, whose first instruction is a REPORT action, was refused
C27_Witness ==
    /\ mcu.st = "returned" /\ mcu.result = ValidationError(3)
    /\ Truncated(mcu.payload)
    /\ Len(mcu.payload) = 24 /\ mcu.payload[9] = 2 /\ mcu.payload[10] = 2

\* the step executes the instruction at pc, whose opcode is op
Executes(op) ==
    /\ mcu.st = "run" /\ mcu.pc < mcu.num_instr
    /\ McuFetch[1] = op
    /\ mcu' # mcu

\* the frame of scenario S8: CALL_SERVICE 0 into R1, RETURN R1
S8Frame ==
    <<239, 241, 1, 1, 0, 2, 0, 0>> \o <<1, 0, 0, 1, 0, 0, 0, 0>>
        \o <<4, 1, 0, 0, 0, 0, 0, 0>>

\* C29: CALL_SERVICE with a service id of 64 or more sets Error and goes
\* to the next instruction with every register as it was; with a service
\* that answers (ids 0 to 3; 0 answers 0) the answer is written to
\* R[out_reg & 7], no other register changes and Zero is set iff the answer
\* is 0; with one that fails (ids 4 to 63) offline_count grows by one and
\* every register is as it was.  The frame S8 returns Ok(2) with the output
\* 00 00 and an empty offline ring.
C29_CallService ==
    [][/\ Executes(1) =>
            LET svc_id == Ops(0)
                out    == Ops(2) % 8
            IN  /\ svc_id >= 64 =>
                      /\ error_flag(mcu'.flags) /\ mcu'.pc = mcu.pc + 1
                      /\ mcu'.r = mcu.r
                      /\ mcu'.offline_count = mcu.offline_count
                /\ svc_id \in 0..3 =>
                      /\ \A i \in 0..7 : i # out => mcu'.r[i] = mcu.r[i]
                      /\ zero_flag(mcu'.flags) <=> mcu'.r[out] = 0
                      /\ svc_id = 0 => mcu'.r[out] = 0
                      /\ mcu'.offline_count = mcu.offline_count
                /\ svc_id \in 4..63 =>
                      /\ mcu'.offline_count = mcu.offline_count + 1
                      /\ mcu'.r = mcu.r
       /\ (mcu'.payload = S8Frame /\ mcu'.st \in {"returned", "matched"}) =>
            /\ mcu'.result = SvmOk(2)
            /\ mcu'.output = <<0, 0>>
            /\ mcu'.ring.queue = <<>>]_vars

\* the frame S8 came to its end
C29_Witness ==
    /\ mcu.payload = S8Frame /\ mcu.st = "matched"
    /\ mcu.result = SvmOk(2) /\ mcu.output = <<0, 0>>
    /\ zero_flag(mcu.flags) /\ mcu.steps = 2

\* the condition byte holds on the flags
ConditionHolds(condition, flags) ==
    \/ condition = 0 /\ zero_flag(flags)
    \/ condition = 1 /\ ~zero_flag(flags)
    \/ condition = 2 /\ error_flag(flags)
    \/ condition = 3 /\ ~error_flag(flags)

\* C30: a BRANCH is taken iff its condition byte is 0 to 3 and holds on the
\* flags; a BRANCH whose target_pc is num_instr or more gives a runtime
\* error; otherwise a branch that is taken sets pc to target_pc and one
\* that is not taken goes to pc + 1; pc stays within the block
C30_Branch ==
    [][/\ Executes(3) =>
            LET target_pc == Ops(1) * 256 + Ops(2)
            IN  /\ mcu'.taken <=> ConditionHolds(Ops(0), mcu.flags)
                /\ target_pc >= mcu.num_instr =>
                      /\ mcu'.st = "returned"
                      /\ mcu'.result.kind = "RuntimeError"
                /\ target_pc < mcu.num_instr =>
                      /\ mcu'.st = "run"
                      /\ mcu'.taken => mcu'.pc = target_pc
                      /\ ~mcu'.taken => mcu'.pc = mcu.pc + 1
       /\ mcu'.st = "run" => mcu'.pc <= mcu'.num_instr]_vars

\* C30 as amended: the runtime error is that of a branch that is taken to
\* a target_pc of num_instr or more; a branch that is not taken goes to
\* pc + 1 whatever its target
C30_BranchTaken ==
    [][/\ Executes(3) =>
            LET target_pc == Ops(1) * 256 + Ops(2)
            IN  /\ mcu'.taken <=> ConditionHolds(Ops(0), mcu.flags)
                /\ (mcu'.taken /\ target_pc >= mcu.num_instr) =>
                      /\ mcu'.st = "returned"
                      /\ mcu'.result = RuntimeError(16)
                      /\ mcu'.pc = mcu.pc
                /\ (mcu'.taken /\ target_pc < mcu.num_instr) =>
                      /\ mcu'.st = "run" /\ mcu'.pc = target_pc
                /\ ~mcu'.taken =>
                      /\ mcu'.st = "run" /\ mcu'.pc = mcu.pc + 1
                /\ mcu'.r = mcu.r /\ mcu'.flags = mcu.flags
       /\ mcu'.st = "run" => mcu'.pc <= mcu'.num_instr]_vars

\* after a service that failed, a branch on "no Error" whose target lies
\* outside the block was not taken and went to pc + 1
C30_Witness ==
    /\ mcu.st = "run" /\ mcu.steps = 2 /\ ~mcu.taken /\ mcu.pc = 2
    /\ mcu.num_instr = 2
    /\ SubSeq(mcu.payload, 17, 20) = <<3, 3, 0, 2>>
    /\ error_flag(mcu.flags)

\* C31: offline_count starts at 0 and grows by one with every service or
\* action dispatch that fails, and with nothing else; RETURN appends
\* R[out_reg & 7] to the output, high byte first, and ends the execution;
\* an execution that ends by RETURN or by pc reaching num_instr returns
\* OfflineQueued(offline_count) if offline_count > 0 and Ok(output length)
\* otherwise; after the return no instruction is executed
C31_ReturnResult ==
    [][/\ (mcu.st = "execute" /\ mcu'.st = "run") => mcu'.offline_count = 0
       /\ Executes(1) =>
             mcu'.offline_count =
                mcu.offline_count + (IF Ops(0) \in 4..63 THEN 1 ELSE 0)
       /\ Executes(2) =>
             mcu'.offline_count =
                mcu.offline_count + (IF Ops(0) \in 0..3 THEN 0 ELSE 1)
       /\ Executes(3) => mcu'.offline_count = mcu.offline_count
       /\ Executes(4) =>
             LET v == mcu.r[Ops(0) % 8]
             IN  /\ mcu'.output = mcu.output \o <<v \div 256, v % 256>>
                 /\ mcu'.st = "returned"
                 /\ mcu'.offline_count = mcu.offline_count
                 /\ mcu'.r = mcu.r /\ mcu'.flags = mcu.flags
       /\ (/\ mcu.st = "run" /\ mcu'.st = "returned"
           /\ (mcu.pc >= mcu.num_instr \/ McuFetch[1] = 4)) =>
             mcu'.result = IF mcu'.offline_count > 0
                           THEN [kind |-> "OfflineQueued",
                                 n |-> mcu'.offline_count]
                           ELSE [kind |-> "Ok", n |-> Len(mcu'.output)]
       /\ mcu.st = "returned" =>
             /\ mcu'.st = "matched"
             /\ mcu'.r = mcu.r /\ mcu'.flags = mcu.flags
             /\ mcu'.output = mcu.output /\ mcu'.steps = mcu.steps
             /\ mcu'.result = mcu.result]_vars

\* an unknown action and then RETURN R1: OfflineQueued(1) with two bytes
\* of output
C31_Witness ==
    /\ mcu.st = "matched" /\ mcu.result = OfflineQueued(1)
    /\ mcu.output = <<0, 0>> /\ mcu.steps = 2
    /\ SubSeq(mcu.payload, 9, 10) = <<2, 9>>
    /\ SubSeq(mcu.payload, 17, 18) = <<4, 1>>

\* the frame passed the header checks and its instructions are being
\* executed
McuRunning == mcu.st = "run"

\* the model follows an execution no further: MaxMcuSteps dispatches have
\* failed, or MaxMcuSteps entries are in the ring
McuCut ==
    \/ mcu.offline_count >= MaxMcuSteps
    \/ Len(mcu.ring.queue) >= MaxMcuSteps

\* C32: the execution of every frame that passes the header checks comes
\* to its end: execute returns Ok, OfflineQueued or RuntimeError
C32_ExecuteTerminates ==
    McuRunning ~>
       (\/ /\ mcu.st = "returned"
           /\ mcu.result.kind \in {"Ok", "OfflineQueued", "RuntimeError"}
        \/ McuCut)

\* the entries of the ring before the step are still in it, in order and
\* at its front, after the step
RingKept ==
    /\ Len(mcu'.ring.queue) >= Len(mcu.ring.queue)
    /\ SubSeq(mcu'.ring.queue, 1, Len(mcu.ring.queue)) = mcu.ring.queue

\* C40: an entry that was enqueued into the ring while a frame was executed
\* leaves the ring only by a flush over a link that is up or by an overflow
\* that counts it as dropped, also when the execution of the frame is
\* over; and after a frame that ended with OfflineQueued(n) the ring holds
\* n entries
C40_RingOutlivesFrame ==
    [][/\ \/ RingKept
          \/ mcu.ring.link_up /\ mcu'.ring.queue = <<>>
          \/ mcu'.ring.dropped > mcu.ring.dropped
       /\ (mcu'.st = "matched" /\ mcu'.result.kind = "OfflineQueued") =>
             ring_pending(mcu'.ring) = mcu'.result.n]_vars
====
